---- MODULE Spec2Model ----
(***************************************************************************)
(* Portico bridge: forwarding of Supabase change notifications to the     *)
(* engine.  Two generations of the service are modelled:                  *)
(*                                                                         *)
(*   Spec      server/bridge/main.py     EngineCommunicator (TCP socket)   *)
(*                                       and SupabaseHandler               *)
(*   SpecTcpStop  the same with SIGINT / SIGTERM and shutdown(), under     *)
(*                the scheduling of the asyncio loop                       *)
(*   SpecGrpc  server/bridge/src/lib.py  BridgeClient (gRPC stub),         *)
(*                                       create_signal_request, the        *)
(*                                       handlers of signal and agent      *)
(*                                       notifications, startup and        *)
(*                                       shutdown of src/main.py           *)
(*   SpecGrpcFair  the same under the scheduling of the asyncio loop       *)
(*   SpecSync  server/bridge/src/lib.py  create_sync_payload as a pure     *)
(*                                       function over its inputs          *)
(*   SpecSan   server/bridge/src/lib.py  sanitize_data applied once and    *)
(*                                       twice to a nested value           *)
(*   SpecWire  server/bridge/main.py     one send_signal exchange, byte    *)
(*                                       by byte                           *)
(*                                                                         *)
(* Python strings are sequences of one-character strings, so that         *)
(* str.upper() and enum lookup are computed and not assumed.              *)
(***************************************************************************)
EXTENDS Integers, Sequences, FiniteSets, TLC

\* ------------------------------------------------------------------ bounds

\* Number of events delivered to the TCP bridge (one asyncio task each).
NumTasks == 2

\* Number of events delivered to the gRPC bridge (one asyncio task each).
NumGrpcTasks == 2

\* Longest entity_types list handed to create_sync_payload.
MaxTypes == 2

\* Longest string leaf of the values handed to sanitize_data.
MaxStrLen == 2

\* Longest response body the engine writes to the socket, in bytes.
MaxBody == 5

\* ------------------------------------------------------------------- state

\* State of the TCP bridge (server/bridge/main.py).
VARIABLES
  pc,        \* [Tasks -> position of the task in its handler]
  running,   \* the task that holds the event loop, or NoTask
  payload,   \* [Tasks -> the realtime payload the task was created with]
  socket,    \* EngineCommunicator.socket: a socket id, or NoSocket
  conns,     \* [socket id -> the socket object and its peer buffers]
  response,  \* [Tasks -> the local `response` of send_signal / the handler]
  dbCalls,   \* [Tasks -> sequence of Supabase writes the task has issued]
  tcpShut    \* how far SIGINT / SIGTERM and shutdown() have got: "up" before

tcpVars == <<pc, running, payload, socket, conns, response, dbCalls, tcpShut>>

\* State of the gRPC bridge (server/bridge/src/lib.py).
VARIABLES
  grpcPc,        \* [GrpcTasks -> position of the task in handle_signal_insert]
  grpcPayload,   \* [GrpcTasks -> index into GrpcEvents of the task's payload]
  stub,          \* BridgeClient.stub is set (connect() has run)
  channel,       \* BridgeClient.channel: "none", "open" or "closed"
  grpcShut,      \* how far shutdown() has got: "up" while it has not run
  stubCalls,     \* [GrpcTasks -> sequence of calls the task made on the stub]
  grpcResponse,  \* [GrpcTasks -> what the awaited stub call returned]
  sendResult,    \* [GrpcTasks -> what BridgeClient.send_signal returned]
  grpcMain,      \* how far main() of src/main.py has got
  config,        \* what main() read from the environment
  mainCalls,     \* sequence of calls main() itself made on the stub
  initSuccess    \* main() got a response to InitServer and its success flag is set

mainVars == <<grpcMain, config, mainCalls, initSuccess>>

grpcVars == <<grpcPc, grpcPayload, stub, channel, grpcShut, stubCalls, grpcResponse, sendResult,
              mainVars>>

\* create_sync_payload applied to one input.
VARIABLES
  syncPc,    \* "call" before the call, "returned" after it
  syncIn,    \* the initial_data dict passed in
  syncOut    \* what the call produced

syncVars == <<syncPc, syncIn, syncOut>>

\* sanitize_data applied to one value, and again to its result.
VARIABLES
  sanPc,     \* "call" before the first call, "once" and "twice" after
  sanIn,     \* the value passed in
  sanOut,    \* sanitize_data(sanIn)
  sanOut2    \* sanitize_data(sanOut)

sanVars == <<sanPc, sanIn, sanOut, sanOut2>>

\* One send_signal exchange of main.py seen at the level of bytes.
VARIABLES
  wirePc,        \* position of send_signal: "sendall", "sendwait", "recv", "done"
  wireMsg,       \* the bytes of json.dumps(...).encode()
  wireSent,      \* the bytes the bridge has written to the socket
  wireSrvData,   \* what the engine's recv returned
  wireBody,      \* the bytes of the response the engine answers with
  wireInFlight,  \* response bytes written by the engine, not yet delivered
  wireBuf,       \* response bytes in the bridge's receive buffer
  wireData       \* response_data: what recv returned

wireVars == <<wirePc, wireMsg, wireSent, wireSrvData, wireBody, wireInFlight, wireBuf, wireData>>

Tasks == 1..NumTasks

NoTask == 0
NoSocket == 0

\* Python None, and the result of dict.get on an absent key.
None == "<None>"

\* A socket is named after the task whose connect() created it: every
\* handler calls send_signal once, and connect() makes a new object each time.
Sockets == Tasks

\* The session id the engine hands out for the request of event t.
SessionFor(t) == "session-" \o ToString(t)

\* id column of the signals row of event t.
SignalId(t) == "signal-" \o ToString(t)

FailedToCommunicate == "Failed to communicate with engine"

\* payload["old"] of a signals UPDATE that is a JSON null.
NoRecord == "<no record>"

\* Signals UPDATE payloads: the status of the old row (NoRecord when the
\* payload has no old row), the status and the session_id of the new row.
SignalUpdates(t) ==
  { [kind |-> "signal_update", id |-> SignalId(t), agent_id |-> None,
     old |-> u[1], status |-> u[2], session_id |-> u[3]] :
        u \in { <<"PROCESSING", "CANCELLED", SessionFor(t)>>,
                <<"PROCESSING", "CANCELLED", None>>,
                <<"CANCELLED", "CANCELLED", SessionFor(t)>>,
                <<"PROCESSING", "PROCESSING", SessionFor(t)>>,
                <<NoRecord, "CANCELLED", SessionFor(t)>> } }

\* Realtime payloads: a signals INSERT with or without id / agent_id, a
\* signals UPDATE, or a change on the agents table.
TcpPayloads(t) ==
  { [kind |-> "new_signal", id |-> i, agent_id |-> a,
     old |-> None, status |-> None, session_id |-> None] :
        i \in {SignalId(t), None}, a \in {"agent-1", None} }
  \cup SignalUpdates(t)
  \cup { [kind |-> "agent_change", id |-> None, agent_id |-> None,
          old |-> None, status |-> None, session_id |-> None] }

\* What the engine may write back for a request: a JSON object with any of
\* the keys status / session_id / message, a JSON value that is no object,
\* or bytes that are no JSON at all.  `req` records which request the bytes
\* answer (the signal_id the request carried); it is not read by the bridge.
EngineReplies(req) ==
  { [kind |-> "dict", req |-> req, status |-> st, session_id |-> se, message |-> m] :
        st \in {"success", "error", None},
        se \in {SessionFor(req), None},
        m \in {"bad entity", None} }
  \cup { [kind |-> "nondict", req |-> req, status |-> None, session_id |-> None, message |-> None],
         [kind |-> "garbage", req |-> req, status |-> None, session_id |-> None, message |-> None] }

\* The replies considered for a request: every one of EngineReplies for an
\* AGENT_RUN request, whose answer handle_new_signal reads; for a DB_SYNC or
\* AGENT_STOP request, whose answer the handler drops unread, the ones with
\* no session_id and no message.
RepliesTo(request) ==
  IF request.signal_type = "AGENT_RUN"
    THEN EngineReplies(request.req)
    ELSE {r \in EngineReplies(request.req) : r.session_id = None /\ r.message = None}

NoResponse == [kind |-> "none", req |-> NoTask, status |-> None, session_id |-> None, message |-> None]

ClosedConn == [open |-> FALSE, connected |-> FALSE, inbox |-> <<>>, outbox |-> <<>>]

\* ------------------------------------------------ TCP bridge: event loop

\* The awaits of main.py that hand control back to the event loop.  The
\* socket calls of EngineCommunicator (connect, sendall, recv) are blocking
\* calls made without await: a task keeps the loop through all of send_signal.
\* Only the awaited Supabase writes can suspend the task.
SuspendsMut(step) == TRUE
Suspends(step) == step \in {"update_signal_status", "write_back"}

\* The loop after task t made `step`.
After(t, step) == IF Suspends(step) THEN NoTask ELSE t

\* Task t can take a step: it holds the loop, or nobody does, and the loop
\* has not been stopped (asyncio.run cancels the tasks left when main
\* returns).
CanRun(t) == running \in {NoTask, t} /\ tcpShut # "stopped"

\* The handlers whose whole body is a try block with `except Exception`
\* (lines 130-166 and 172-193); handle_agent_change has none.
GuardedMut(handler) == FALSE
Guarded(handler) == handler \in {"handle_new_signal", "handle_signal_update"}

\* Where the task of a handler ends when the handler's body raised: the
\* except clause logs and the coroutine returns, or the exception leaves
\* the coroutine.
AfterRaise(handler) == IF Guarded(handler) THEN "done" ELSE "raised"

TcpInit ==
  /\ pc = [t \in Tasks |-> "idle"]
  /\ running = NoTask
  /\ payload = [t \in Tasks |-> [kind |-> "none", id |-> None, agent_id |-> None,
                                  old |-> None, status |-> None, session_id |-> None]]
  /\ socket = NoSocket
  /\ conns = [s \in Sockets |-> ClosedConn]
  /\ response = [t \in Tasks |-> NoResponse]
  /\ dbCalls = [t \in Tasks |-> <<>>]
  /\ tcpShut = "up"

\* setup_realtime: the channel callback creates one task per notification.
Dispatch(t) ==
  /\ pc[t] = "idle"
  /\ running = NoTask
  /\ tcpShut \in {"up", "signalled"}
  /\ \E p \in TcpPayloads(t) : payload' = [payload EXCEPT ![t] = p]
  /\ pc' = [pc EXCEPT ![t] = "start"]
  /\ UNCHANGED <<running, socket, conns, response, dbCalls, tcpShut, grpcVars, syncVars, sanVars, wireVars>>

\* handle_new_signal up to the call of send_signal: validation of id and
\* agent_id, then update_signal_status(signal_id, "PROCESSING").
NewSignalStart(t) ==
  /\ pc[t] = "start"
  /\ payload[t].kind = "new_signal"
  /\ CanRun(t)
  /\ IF payload[t].id = None \/ payload[t].agent_id = None
       THEN /\ pc' = [pc EXCEPT ![t] = "done"]
            /\ running' = NoTask
            /\ UNCHANGED dbCalls
       ELSE /\ dbCalls' = [dbCalls EXCEPT ![t] =
                 Append(@, [op |-> "status", id |-> payload[t].id, arg |-> "PROCESSING"])]
            /\ pc' = [pc EXCEPT ![t] = "connect"]
            /\ running' = After(t, "update_signal_status")
  /\ UNCHANGED <<payload, socket, conns, response, tcpShut, grpcVars, syncVars, sanVars, wireVars>>

\* handle_signal_update without the test of the old status: every update
\* whose new row is CANCELLED and has a session is sent on.
SignalUpdateStartMut(t) ==
  /\ pc[t] = "start"
  /\ payload[t].kind = "signal_update"
  /\ CanRun(t)
  /\ IF payload[t].status = "CANCELLED" /\ payload[t].session_id # None
       THEN /\ pc' = [pc EXCEPT ![t] = "connect"]
            /\ running' = After(t, "log")
       ELSE /\ pc' = [pc EXCEPT ![t] = "done"]
            /\ running' = NoTask
  /\ UNCHANGED <<payload, socket, conns, response, dbCalls, tcpShut, grpcVars, syncVars, sanVars, wireVars>>

\* handle_signal_update up to the call of send_signal, or to its end when
\* the update is no cancellation, the row has no session, or reading the
\* payload raised (old_data is None).
SignalUpdateStart(t) ==
  /\ pc[t] = "start"
  /\ payload[t].kind = "signal_update"
  /\ CanRun(t)
  /\ IF payload[t].old = NoRecord
       THEN /\ pc' = [pc EXCEPT ![t] = AfterRaise("handle_signal_update")]
            /\ running' = NoTask
       ELSE IF payload[t].old # "CANCELLED" /\ payload[t].status = "CANCELLED"
               /\ payload[t].session_id # None
         THEN /\ pc' = [pc EXCEPT ![t] = "connect"]
              /\ running' = After(t, "log")
         ELSE /\ pc' = [pc EXCEPT ![t] = "done"]
              /\ running' = NoTask
  /\ UNCHANGED <<payload, socket, conns, response, dbCalls, tcpShut, grpcVars, syncVars, sanVars, wireVars>>

\* handle_agent_change up to the call of send_signal.
AgentChangeStart(t) ==
  /\ pc[t] = "start"
  /\ payload[t].kind = "agent_change"
  /\ CanRun(t)
  /\ pc' = [pc EXCEPT ![t] = "connect"]
  /\ running' = After(t, "log")
  /\ UNCHANGED <<payload, socket, conns, response, dbCalls, tcpShut, grpcVars, syncVars, sanVars, wireVars>>

\* EngineCommunicator.connect: a new socket object replaces self.socket,
\* then the blocking connect succeeds or raises.  On failure send_signal
\* returns None before its try block: the finally clause does not run.
Connect(t) ==
  /\ pc[t] = "connect"
  /\ CanRun(t)
  /\ socket' = t
  /\ \/ /\ conns' = [conns EXCEPT ![t] = [ClosedConn EXCEPT !.open = TRUE, !.connected = TRUE]]
        /\ pc' = [pc EXCEPT ![t] = "sendall"]
        /\ running' = After(t, "connect")
        /\ UNCHANGED response
     \/ /\ conns' = [conns EXCEPT ![t] = [ClosedConn EXCEPT !.open = TRUE]]
        /\ response' = [response EXCEPT ![t] = NoResponse]
        /\ pc' = [pc EXCEPT ![t] = "handle"]
        /\ running' = After(t, "connect")
  /\ UNCHANGED <<payload, dbCalls, tcpShut, grpcVars, syncVars, sanVars, wireVars>>

\* The request of task t as it goes on the wire.
Request(t) ==
  [signal_type |-> IF payload[t].kind = "new_signal" THEN "AGENT_RUN"
                   ELSE IF payload[t].kind = "signal_update" THEN "AGENT_STOP"
                   ELSE "DB_SYNC",
   req |-> t]

\* self.socket.sendall(message): the bytes go out on whatever socket the
\* communicator holds at this moment.
SendAll(t) ==
  /\ pc[t] = "sendall"
  /\ CanRun(t)
  /\ \/ /\ socket # NoSocket
        /\ conns[socket].open /\ conns[socket].connected
        /\ conns' = [conns EXCEPT ![socket].inbox = Append(@, Request(t))]
        /\ pc' = [pc EXCEPT ![t] = "recv"]
        /\ UNCHANGED response
     \/ \* sendall raises (no socket, closed socket, broken pipe)
        /\ response' = [response EXCEPT ![t] = NoResponse]
        /\ pc' = [pc EXCEPT ![t] = "finally"]
        /\ UNCHANGED conns
  /\ running' = After(t, "sendall")
  /\ UNCHANGED <<payload, socket, dbCalls, tcpShut, grpcVars, syncVars, sanVars, wireVars>>

\* The engine reads one request from a connection and answers on it.
EngineReply(s) ==
  /\ conns[s].open /\ conns[s].connected
  /\ conns[s].inbox # <<>>
  /\ \E r \in RepliesTo(Head(conns[s].inbox)) :
        conns' = [conns EXCEPT ![s].inbox = Tail(@), ![s].outbox = Append(@, r)]
  /\ UNCHANGED <<pc, running, payload, socket, response, dbCalls, tcpShut, grpcVars, syncVars, sanVars, wireVars>>

\* json.loads(response_data.decode()): bytes that are not JSON raise, and
\* send_signal returns None.
Decode(data) == IF data.kind = "garbage" THEN NoResponse ELSE data

\* self.socket.recv(4096) and the decoding of what it returns.
Recv(t) ==
  /\ pc[t] = "recv"
  /\ CanRun(t)
  /\ \/ /\ socket # NoSocket
        /\ conns[socket].open
        /\ conns[socket].outbox # <<>>
        /\ response' = [response EXCEPT ![t] = Decode(Head(conns[socket].outbox))]
        /\ conns' = [conns EXCEPT ![socket].outbox = Tail(@)]
     \/ \* recv raises, or returns b"" because the peer closed
        /\ response' = [response EXCEPT ![t] = NoResponse]
        /\ UNCHANGED conns
  /\ pc' = [pc EXCEPT ![t] = "finally"]
  /\ running' = After(t, "recv")
  /\ UNCHANGED <<payload, socket, dbCalls, tcpShut, grpcVars, syncVars, sanVars, wireVars>>

\* finally without self.socket.close(): the socket is only forgotten.
FinallyMut(t) ==
  /\ pc[t] = "finally"
  /\ CanRun(t)
  /\ socket' = NoSocket
  /\ pc' = [pc EXCEPT ![t] = "handle"]
  /\ running' = After(t, "close")
  /\ UNCHANGED <<payload, conns, response, dbCalls, tcpShut, grpcVars, syncVars, sanVars, wireVars>>

\* finally: the socket the communicator holds now is closed and forgotten.
Finally(t) ==
  /\ pc[t] = "finally"
  /\ CanRun(t)
  /\ IF socket # NoSocket
       THEN conns' = [conns EXCEPT ![socket] = ClosedConn]
       ELSE UNCHANGED conns
  /\ socket' = NoSocket
  /\ pc' = [pc EXCEPT ![t] = "handle"]
  /\ running' = After(t, "close")
  /\ UNCHANGED <<payload, response, dbCalls, tcpShut, grpcVars, syncVars, sanVars, wireVars>>

\* Python truthiness of what send_signal returned: None and {} are falsy.
Truthy(r) ==
  \/ r.kind = "nondict"
  \/ r.kind = "dict" /\ (r.status # None \/ r.session_id # None \/ r.message # None)

\* The Supabase writes handle_new_signal issues for the response r of the
\* signal `id` (lines 154-166): response.get on a value that is no dict
\* raises AttributeError, which the handler's except clause logs.
WriteBack(id, r) ==
  IF Truthy(r) /\ r.kind = "nondict" THEN <<>>
  ELSE IF Truthy(r) /\ r.status = "success"
    THEN << [op |-> "session", id |-> id, arg |-> r.session_id] >>
  ELSE << [op |-> "error", id |-> id,
           arg |-> IF Truthy(r) THEN r.message ELSE FailedToCommunicate] >>

\* handle_new_signal after send_signal returned.
NewSignalHandle(t) ==
  /\ pc[t] = "handle"
  /\ payload[t].kind = "new_signal"
  /\ CanRun(t)
  /\ dbCalls' = [dbCalls EXCEPT ![t] = @ \o WriteBack(payload[t].id, response[t])]
  /\ pc' = [pc EXCEPT ![t] = IF Truthy(response[t]) /\ response[t].kind = "nondict"
                               THEN AfterRaise("handle_new_signal")
                               ELSE "done"]
  /\ running' = NoTask
  /\ UNCHANGED <<payload, socket, conns, response, tcpShut, grpcVars, syncVars, sanVars, wireVars>>

\* handle_signal_update after send_signal returned: the result is dropped.
SignalUpdateHandle(t) ==
  /\ pc[t] = "handle"
  /\ payload[t].kind = "signal_update"
  /\ CanRun(t)
  /\ pc' = [pc EXCEPT ![t] = "done"]
  /\ running' = NoTask
  /\ UNCHANGED <<payload, socket, conns, response, dbCalls, tcpShut, grpcVars, syncVars, sanVars, wireVars>>

\* handle_agent_change treating the result as handle_new_signal does: the
\* response is written back to the signals table.
AgentChangeHandleMut(t) ==
  /\ pc[t] = "handle"
  /\ payload[t].kind = "agent_change"
  /\ CanRun(t)
  /\ dbCalls' = [dbCalls EXCEPT ![t] = @ \o WriteBack(payload[t].id, response[t])]
  /\ pc' = [pc EXCEPT ![t] = "done"]
  /\ running' = NoTask
  /\ UNCHANGED <<payload, socket, conns, response, tcpShut, grpcVars, syncVars, sanVars, wireVars>>

\* handle_agent_change after send_signal returned: the result is dropped.
AgentChangeHandle(t) ==
  /\ pc[t] = "handle"
  /\ payload[t].kind = "agent_change"
  /\ CanRun(t)
  /\ pc' = [pc EXCEPT ![t] = "done"]
  /\ running' = NoTask
  /\ UNCHANGED <<payload, socket, conns, response, dbCalls, tcpShut, grpcVars, syncVars, sanVars, wireVars>>

\* SIGINT or SIGTERM arrives: the handler main() installed with
\* add_signal_handler is a callback of the event loop, which runs it when
\* the loop gets control back.
TcpSignal ==
  /\ tcpShut = "up"
  /\ tcpShut' = "signalled"
  /\ UNCHANGED <<pc, running, payload, socket, conns, response, dbCalls,
                 grpcVars, syncVars, sanVars, wireVars>>

\* The loop runs the callback and then the task it created: shutdown() up
\* to `await channel.unsubscribe()`.  The loop runs its ready tasks in the
\* order they were created: a handler task created before has run to its
\* first await by now.
TcpShutdownUnsubscribe ==
  /\ tcpShut = "signalled"
  /\ running = NoTask
  /\ \A t \in Tasks : pc[t] # "start"
  /\ tcpShut' = "unsubscribed"
  /\ UNCHANGED <<pc, running, payload, socket, conns, response, dbCalls,
                 grpcVars, syncVars, sanVars, wireVars>>

\* shutdown() after the await: stop_event.set(); main wakes up and returns.
TcpShutdownSet ==
  /\ tcpShut = "unsubscribed"
  /\ running = NoTask
  /\ tcpShut' = "stopped"
  /\ UNCHANGED <<pc, running, payload, socket, conns, response, dbCalls,
                 grpcVars, syncVars, sanVars, wireVars>>

\* recv returns bytes the engine has written.
RecvData(t) ==
  /\ socket # NoSocket
  /\ conns[socket].outbox # <<>>
  /\ Recv(t)

TcpNext ==
  \/ \E t \in Tasks : Dispatch(t)
  \/ \E t \in Tasks : NewSignalStart(t)
  \/ \E t \in Tasks : SignalUpdateStart(t)
  \/ \E t \in Tasks : AgentChangeStart(t)
  \/ \E t \in Tasks : Connect(t)
  \/ \E t \in Tasks : SendAll(t)
  \/ \E s \in Sockets : EngineReply(s)
  \/ \E t \in Tasks : Recv(t)
  \/ \E t \in Tasks : Finally(t)
  \/ \E t \in Tasks : NewSignalHandle(t)
  \/ \E t \in Tasks : SignalUpdateHandle(t)
  \/ \E t \in Tasks : AgentChangeHandle(t)

\* ------------------------------------------------- Python values (lib.py)

\* A Python value is a record [t, v]: its type tag and its content.  A str
\* is a sequence of one-character strings, a dict a function from its keys,
\* a list a sequence of values.
PyStr(chars) == [t |-> "str", v |-> chars]
PyInt(n) == [t |-> "int", v |-> n]
PyDict(f) == [t |-> "dict", v |-> f]
PyList(q) == [t |-> "list", v |-> q]
PyNone == [t |-> "none", v |-> 0]

\* {} : the dict with no key.
EmptyDict == PyDict([k \in {} |-> PyNone])

\* U+0000, the character Postgres rejects.
NUL == "NUL"

LowerToUpper ==
  [a |-> "A", b |-> "B", c |-> "C", d |-> "D", e |-> "E", f |-> "F", g |-> "G",
   h |-> "H", i |-> "I", j |-> "J", k |-> "K", l |-> "L", m |-> "M", n |-> "N",
   o |-> "O", p |-> "P", q |-> "Q", r |-> "R", s |-> "S", t |-> "T", u |-> "U",
   v |-> "V", w |-> "W", x |-> "X", y |-> "Y", z |-> "Z"]

\* str.upper()
Upper(chars) ==
  [i \in DOMAIN chars |->
     IF chars[i] \in DOMAIN LowerToUpper THEN LowerToUpper[chars[i]] ELSE chars[i]]

\* bool(x) for the values the bridge tests for truth.
IsTrue(x) ==
  CASE x.t = "none" -> FALSE
    [] x.t = "str" -> x.v # <<>>
    [] x.t = "int" -> x.v # 0
    [] x.t = "list" -> x.v # <<>>
    [] x.t = "dict" -> DOMAIN x.v # {}

\* pydian.get(source, "k1.k2", default): the value under the dotted path,
\* or default when a key of the path is missing or the value is None.
RECURSIVE get(_, _, _)
get(source, path, default) ==
  IF path = <<>>
    THEN IF source.t = "none" THEN default ELSE source
  ELSE IF source.t = "dict" /\ Head(path) \in DOMAIN source.v
    THEN get(source.v[Head(path)], Tail(path), default)
  ELSE default

\* str.replace(old, "", 1): only the first occurrence is removed.
RECURSIVE ReplaceFirst(_)
ReplaceFirst(chars) ==
  IF chars = <<>> THEN <<>>
  ELSE IF Head(chars) = NUL THEN Tail(chars)
  ELSE <<Head(chars)>> \o ReplaceFirst(Tail(chars))

\* sanitize_data with replace(..., 1) in its str branch.
RECURSIVE sanitize_dataFirst(_)
sanitize_dataFirst(data) ==
  IF data.t = "str"
    THEN PyStr(ReplaceFirst(data.v))
  ELSE IF data.t = "dict"
    THEN PyDict([k \in DOMAIN data.v |-> sanitize_dataFirst(data.v[k])])
  ELSE IF data.t = "list"
    THEN PyList([i \in DOMAIN data.v |-> sanitize_dataFirst(data.v[i])])
  ELSE data

\* sanitize_data without its list branch.
RECURSIVE sanitize_dataNoList(_)
sanitize_dataNoList(data) ==
  IF data.t = "str"
    THEN PyStr(SelectSeq(data.v, LAMBDA c : c # NUL))
  ELSE IF data.t = "dict"
    THEN PyDict([k \in DOMAIN data.v |-> sanitize_dataNoList(data.v[k])])
  ELSE data

\* Sanitize data by removing null characters that Postgres can't handle.
RECURSIVE sanitize_data(_)
sanitize_data(data) ==
  IF data.t = "str"
    THEN PyStr(SelectSeq(data.v, LAMBDA c : c # NUL))
  ELSE IF data.t = "dict"
    THEN PyDict([k \in DOMAIN data.v |-> sanitize_data(data.v[k])])
  ELSE IF data.t = "list"
    THEN PyList([i \in DOMAIN data.v |-> sanitize_data(data.v[i])])
  ELSE data

\* ------------------------------------------- generated enums (pb2), lib.py

sRUN == <<"R", "U", "N">>
sSYNC == <<"S", "Y", "N", "C">>
sFYI == <<"F", "Y", "I">>
sALL == <<"A", "L", "L">>
sSPECIFIC == <<"S", "P", "E", "C", "I", "F", "I", "C">>
sAGENT == <<"A", "G", "E", "N", "T">>
sSTEP == <<"S", "T", "E", "P">>
sCREATE == <<"C", "R", "E", "A", "T", "E">>
sFOO == <<"F", "O", "O">>

\* pb2.SignalType, pb2.SyncScope, pb2.EntityType: symbol name -> enum member.
SignalTypeEnum == (sRUN :> "RUN") @@ (sSYNC :> "SYNC") @@ (sFYI :> "FYI")
SyncScopeEnum == (sALL :> "ALL") @@ (sSPECIFIC :> "SPECIFIC")
EntityTypeEnum == (sAGENT :> "AGENT") @@ (sSTEP :> "STEP")

\* Enum.Value(name): the member called name; ValueError when there is none.
EnumValue(enum, name) ==
  IF name \in DOMAIN enum
    THEN [raised |-> FALSE, value |-> enum[name]]
    ELSE [raised |-> TRUE, value |-> "ValueError"]

\* ------------------------------------------------ create_sync_payload

\* The elements a for loop over x visits; iterating a str gives its
\* characters.  (Iterating an int raises TypeError: see Iterable.)
Elements(x) ==
  IF x.t = "list" THEN x.v
  ELSE IF x.t = "str" THEN [i \in DOMAIN x.v |-> PyStr(<<x.v[i]>>)]
  ELSE <<>>

Iterable(x) == x.t \in {"list", "str", "dict"}

Digits == <<"0", "1", "2", "3", "4", "5", "6", "7", "8", "9">>

\* str(x) for a str or a non-negative int.
RECURSIVE str(_)
str(x) ==
  IF x.t = "str" THEN x
  ELSE IF x.v < 10 THEN PyStr(<<Digits[x.v + 1]>>)
  ELSE PyStr(str(PyInt(x.v \div 10)).v \o <<Digits[(x.v % 10) + 1]>>)

\* The loop of lines 224-231 over the elements from index i on, with the
\* members appended so far.  et_str.upper() on an element that is no str
\* raises AttributeError, which the loop does not catch; ValueError from
\* EntityType.Value is caught and the element skipped.
RECURSIVE EntityTypesLoop(_, _, _)
EntityTypesLoop(elems, i, acc) ==
  IF i > Len(elems) THEN [raised |-> FALSE, value |-> acc]
  ELSE IF elems[i].t # "str" THEN [raised |-> TRUE, value |-> acc]
  ELSE LET et == EnumValue(EntityTypeEnum, Upper(elems[i].v))
       IN EntityTypesLoop(elems, i + 1, IF et.raised THEN acc ELSE Append(acc, et.value))

\* The scope chosen at lines 211-217 for the upper-cased scope string.
ScopeOrDefault(scope_str) ==
  IF EnumValue(SyncScopeEnum, scope_str).raised
    THEN "ALL"
    ELSE EnumValue(SyncScopeEnum, scope_str).value

SyncRaised == [raised |-> TRUE, scope |-> "", entity_uuids |-> <<>>, entity_types |-> <<>>]

\* create_sync_payload(data): the SyncPayload, or raised when an exception
\* leaves the function.
create_sync_payload(data) ==
  LET scope_val == get(data, <<"scope">>, PyStr(sALL))
      uuids == get(data, <<"entity_uuids">>, PyList(<<>>))
      types == get(data, <<"entity_types">>, PyList(<<>>))
  IN IF scope_val.t # "str" THEN SyncRaised
     ELSE IF ~Iterable(uuids) THEN SyncRaised
     ELSE IF ~Iterable(types) THEN SyncRaised
     ELSE LET loop == EntityTypesLoop(Elements(types), 1, <<>>)
          IN IF loop.raised THEN SyncRaised
             ELSE [raised |-> FALSE,
                   scope |-> ScopeOrDefault(Upper(scope_val.v)),
                   entity_uuids |-> [i \in DOMAIN Elements(uuids) |-> str(Elements(uuids)[i]).v],
                   entity_types |-> loop.value]

\* ------------------------------------------------ create_signal_request

\* The characters of the JSON text {"n":"\u0000"}: the null character is
\* written as a six-character escape, the text itself holds no U+0000.
EscapedNulText ==
  <<"{", "\"", "n", "\"", ":", "\"", "\\", "u", "0", "0", "0", "0", "\"", "}">>

\* json.loads on the texts the model feeds it: "{}", "[]" and
\* {"n":"\u0000"} decode (the escape to the character U+0000), any other
\* text of the model's inputs is not JSON (JSONDecodeError).
json_loads(chars) ==
  IF chars = <<"{", "}">> THEN [raised |-> FALSE, value |-> EmptyDict]
  ELSE IF chars = <<"[", "]">> THEN [raised |-> FALSE, value |-> PyList(<<>>)]
  ELSE IF chars = EscapedNulText
    THEN [raised |-> FALSE, value |-> PyDict([n |-> PyStr(<<NUL>>)])]
  ELSE [raised |-> TRUE, value |-> PyNone]

\* Lines 172-178 without line 178: text that fails to parse stays as it is.
InitialDataMut(record) ==
  LET initial_data == get(record, <<"initial_data">>, EmptyDict)
  IN IF initial_data.t = "str"
       THEN IF json_loads(initial_data.v).raised THEN initial_data
            ELSE json_loads(initial_data.v).value
       ELSE initial_data

\* Lines 172-178: initial_data, decoded when it is a JSON-encoded string.
InitialData(record) ==
  LET initial_data == get(record, <<"initial_data">>, EmptyDict)
  IN IF initial_data.t = "str"
       THEN IF json_loads(initial_data.v).raised THEN EmptyDict
            ELSE json_loads(initial_data.v).value
       ELSE initial_data

\* create_signal_request returned None.
NoRequest == [t |-> "none", signal_id |-> PyNone, agent_id |-> PyNone,
              signal_type |-> "", payload |-> "", body |-> PyNone, sync |-> SyncRaised]

\* Lines 180-201 without the FYI branch: the base request is returned.
BuildRequestMut(record, signal_type) ==
  LET initial_data == InitialData(record)
      base == [t |-> "request",
               signal_id |-> get(record, <<"id">>, PyInt(0)),
               agent_id |-> get(record, <<"agent_id">>, PyInt(0)),
               signal_type |-> signal_type,
               payload |-> "", body |-> PyNone, sync |-> SyncRaised]
  IN CASE signal_type = "RUN" ->
            [base EXCEPT !.payload = "run_data", !.body = PyDict([data |-> initial_data])]
       [] signal_type = "SYNC" ->
            IF create_sync_payload(initial_data).raised THEN NoRequest
            ELSE [base EXCEPT !.payload = "sync", !.sync = create_sync_payload(initial_data)]
       [] signal_type = "FYI" -> base

\* Lines 180-201: the request for a record whose signal_type is the enum
\* member signal_type.  An exception of create_sync_payload is caught at
\* line 202 and None returned.
BuildRequest(record, signal_type) ==
  LET initial_data == InitialData(record)
      base == [t |-> "request",
               signal_id |-> get(record, <<"id">>, PyInt(0)),
               agent_id |-> get(record, <<"agent_id">>, PyInt(0)),
               signal_type |-> signal_type,
               payload |-> "", body |-> PyNone, sync |-> SyncRaised]
  IN CASE signal_type = "RUN" ->
            [base EXCEPT !.payload = "run_data", !.body = PyDict([data |-> initial_data])]
       [] signal_type = "SYNC" ->
            IF create_sync_payload(initial_data).raised THEN NoRequest
            ELSE [base EXCEPT !.payload = "sync", !.sync = create_sync_payload(initial_data)]
       [] signal_type = "FYI" ->
            [base EXCEPT !.payload = "fyi_data", !.body = PyDict([data |-> initial_data])]

\* Lines 158-169: what becomes of the record's signal_type.  A value that
\* is no str has no upper(): AttributeError, caught at line 202.
SignalTypeOfMut(record) ==
  LET v == get(record, <<"signal_type">>, PyStr(<<>>))
  IN IF v.t # "str" THEN [raised |-> TRUE, value |-> "AttributeError"]
     ELSE IF Upper(v.v) \in DOMAIN SignalTypeEnum THEN EnumValue(SignalTypeEnum, Upper(v.v))
     ELSE [raised |-> FALSE, value |-> "RUN"]
SignalTypeOf(record) ==
  LET v == get(record, <<"signal_type">>, PyStr(<<>>))
  IN IF v.t # "str" THEN [raised |-> TRUE, value |-> "AttributeError"]
     ELSE IF Upper(v.v) = <<>> THEN [raised |-> TRUE, value |-> "No signal_type found in record"]
     ELSE EnumValue(SignalTypeEnum, Upper(v.v))

\* create_signal_request(data): the SignalRequest, or NoRequest for None.
create_signal_request(data) ==
  LET record == get(data, <<"data", "record">>, EmptyDict)
  IN IF ~IsTrue(record) THEN NoRequest
     ELSE IF SignalTypeOf(record).raised THEN NoRequest
     ELSE BuildRequest(record, SignalTypeOf(record).value)

\* ------------------------------------------------- gRPC bridge: state

GrpcTasks == 1..NumGrpcTasks

\* A signals row as the realtime payload carries it.  A column whose value
\* is PyNone is a JSON null.
Record(signal_type, initial_data) ==
  PyDict([global_uuid |-> PyStr(<<"g", "1">>),
          user_requested_uuid |-> PyStr(<<"u", "1">>),
          signal_type |-> signal_type,
          initial_data |-> initial_data])

\* The same row without its signal_type column.
RecordNoType(initial_data) ==
  PyDict([global_uuid |-> PyStr(<<"g", "1">>),
          user_requested_uuid |-> PyStr(<<"u", "1">>),
          initial_data |-> initial_data])

\* A signals row that also has the id and agent_id columns.
RecordWithIds(id, agent_id, signal_type, initial_data) ==
  PyDict([id |-> id,
          agent_id |-> agent_id,
          global_uuid |-> PyStr(<<"g", "1">>),
          user_requested_uuid |-> PyStr(<<"u", "1">>),
          signal_type |-> signal_type,
          initial_data |-> initial_data])

sSIGNALS == <<"s", "i", "g", "n", "a", "l", "s">>
sAGENTS == <<"a", "g", "e", "n", "t", "s">>
sINSERT == <<"I", "N", "S", "E", "R", "T">>
sDELETE == <<"D", "E", "L", "E", "T", "E">>

Payload(record) ==
  PyDict([data |-> PyDict([table |-> PyStr(sSIGNALS),
                           type |-> PyStr(sINSERT),
                           record |-> record])])

\* A change notification of the agents table.
AgentPayload(type, record) ==
  PyDict([data |-> PyDict([table |-> PyStr(sAGENTS),
                           type |-> PyStr(type),
                           record |-> record])])

\* The dict key "k\u0000": keys are kept as whole strings, this one
\* stands for a key with a null character in it.
NulKey == "k<NUL>"

RunData(operation) ==
  PyDict([operation |-> operation,
          entity_type |-> PyStr(sAGENT),
          entity_uuid |-> PyStr(<<"e", "1">>),
          data |-> PyDict([name |-> PyStr(<<"X", NUL>>)])])

SyncData(scope, entity_types) ==
  PyDict([scope |-> scope, entity_types |-> entity_types])

\* The payloads delivered to handle_signal_insert.
GrpcEvents ==
  << \* 1-9: every shape of signal_type, over a well-formed RUN body
     Payload(Record(PyStr(sRUN), RunData(PyStr(sCREATE)))),
     Payload(Record(PyStr(<<"r", "u", "n">>), RunData(PyStr(sCREATE)))),
     Payload(Record(PyStr(sSYNC), SyncData(PyStr(sALL), PyList(<<PyStr(sAGENT), PyStr(sSTEP)>>)))),
     Payload(Record(PyStr(sFYI), PyDict([message |-> PyStr(<<"h", "i">>)]))),
     Payload(Record(PyStr(<<"B", "O", "G", "U", "S">>), RunData(PyStr(sCREATE)))),
     Payload(Record(PyStr(<<>>), RunData(PyStr(sCREATE)))),
     Payload(Record(PyStr(<<NUL>>), RunData(PyStr(sCREATE)))),
     Payload(Record(PyInt(5), RunData(PyStr(sCREATE)))),
     Payload(Record(PyNone, RunData(PyStr(sCREATE)))),
     \* 10: no signal_type column at all
     Payload(RecordNoType(RunData(PyStr(sCREATE)))),
     \* 11-12: no record, empty record
     PyDict([data |-> PyDict([table |-> PyStr(<<"s", "i", "g", "n", "a", "l", "s">>)])]),
     Payload(EmptyDict),
     \* 13-15: RUN bodies: unknown operation, JSON text, text that is no JSON
     Payload(Record(PyStr(sRUN), RunData(PyStr(sFOO)))),
     Payload(Record(PyStr(sRUN), PyStr(<<"{", "}">>))),
     Payload(Record(PyStr(sRUN), PyStr(<<"{", "x">>))),
     \* 16-19: SYNC bodies: unknown scope, scope that is no str, unknown
     \* entity type, entity type that is no str
     Payload(Record(PyStr(sSYNC), SyncData(PyStr(sFOO), PyList(<<PyStr(sAGENT)>>)))),
     Payload(Record(PyStr(sSYNC), SyncData(PyInt(5), PyList(<<PyStr(sAGENT)>>)))),
     Payload(Record(PyStr(sSYNC), SyncData(PyStr(sALL), PyList(<<PyStr(sAGENT), PyStr(sFOO)>>)))),
     Payload(Record(PyStr(sSYNC), SyncData(PyStr(sALL), PyList(<<PyStr(sAGENT), PyInt(7)>>)))),
     \* 20: the server-init message
     PyDict("server-init" :> PyNone),
     \* 21-23: RUN records: with id and agent_id columns, without
     \* global_uuid, with a body that names no entity_uuid
     Payload(RecordWithIds(PyInt(7), PyInt(3), PyStr(sRUN), RunData(PyStr(sCREATE)))),
     Payload(PyDict([user_requested_uuid |-> PyStr(<<"u", "1">>),
                     signal_type |-> PyStr(sRUN),
                     initial_data |-> RunData(PyStr(sCREATE))])),
     Payload(Record(PyStr(sRUN), PyDict([operation |-> PyStr(sCREATE),
                                         entity_type |-> PyStr(sAGENT)]))),
     \* 24-25: SYNC and FYI bodies that are text but no JSON
     Payload(Record(PyStr(sSYNC), PyStr(<<"{", "x">>))),
     Payload(Record(PyStr(sFYI), PyStr(<<"{", "x">>))),
     \* 26: a RUN body that is JSON text with an escaped U+0000
     Payload(Record(PyStr(sRUN), PyStr(EscapedNulText))),
     \* 27-29: agents INSERT: a NUL in a value, a NUL in a key, no columns
     AgentPayload(sINSERT, PyDict([id |-> PyInt(3), name |-> PyStr(<<"X", NUL>>)])),
     AgentPayload(sINSERT, PyDict((NulKey :> PyStr(<<"X">>)) @@ ("id" :> PyInt(3)))),
     AgentPayload(sINSERT, EmptyDict),
     \* 30-31: agents DELETE: with and without the id column
     AgentPayload(sDELETE, PyDict([id |-> PyInt(3)])),
     AgentPayload(sDELETE, PyDict([name |-> PyStr(<<"X">>)])) >>

NoEvent == 0

\* The payload of task g.
EventOf(g) == GrpcEvents[grpcPayload[g]]

\* "server-init" in data
IsServerInitMut(data) == FALSE
IsServerInit(data) == data.t = "dict" /\ "server-init" \in DOMAIN data.v

\* What the engine may return from ProcessSignal / InitServer: a response
\* message (runtime_session_uuid "" when the engine set none).
GrpcReplies ==
  { [kind |-> "pb2", success |-> ok, message |-> m, runtime_session_uuid |-> u] :
      ok \in BOOLEAN, m \in {"bad entity"}, u \in {"", "s1"} }

\* The awaited stub call raised (grpc.aio.AioRpcError): the caller gets None.
GrpcNone == [kind |-> "none", success |-> FALSE, message |-> "", runtime_session_uuid |-> ""]

\* The table and the operation a notification is about.
TableOf(data) == get(data, <<"data", "table">>, PyStr(<<>>))
TypeOf(data) == get(data, <<"data", "type">>, PyStr(<<>>))

\* The handler a subscription hands the notification to: the callbacks are
\* registered per table and operation.
HandlerOf(data) ==
  IF TableOf(data) = PyStr(sAGENTS)
    THEN IF TypeOf(data) = PyStr(sDELETE) THEN "handle_agent_delete"
         ELSE "handle_agent_insert"
    ELSE "handle_signal_insert"

\* The environment main() reads: whether SUPABASE_URL and SUPABASE_KEY are
\* both set, and whether ENGINE_CONTAINER_NAME and ENGINE_PORT are.
Configs == [credentials : BOOLEAN, coordinates : BOOLEAN, read : {TRUE}]

\* The environment has not been read yet.
Unread == [credentials |-> FALSE, coordinates |-> FALSE, read |-> FALSE]

GrpcInit ==
  /\ grpcMain = "start"
  /\ config = Unread
  /\ mainCalls = <<>>
  /\ initSuccess = FALSE
  /\ grpcPc = [g \in GrpcTasks |-> "idle"]
  /\ grpcPayload = [g \in GrpcTasks |-> NoEvent]
  /\ stub = FALSE
  /\ channel = "none"
  /\ grpcShut = "up"
  /\ stubCalls = [g \in GrpcTasks |-> <<>>]
  /\ grpcResponse = [g \in GrpcTasks |-> GrpcNone]
  /\ sendResult = [g \in GrpcTasks |-> "pending"]

\* `if not supabase_url or not supabase_key: return` (src/main.py 66-68).
CredentialsSetMut(c) == TRUE
CredentialsSet(c) == c.credentials

\* main() from its first line to BridgeClient.connect: the environment is
\* read, the engine host and port fall back to "engine" and 50051 when they
\* are not set, and main returns when a Supabase credential is missing.
MainStart ==
  /\ grpcMain = "start"
  /\ \E c \in Configs :
       /\ config' = c
       /\ grpcMain' = IF CredentialsSet(c) THEN "connect" ELSE "returned"
  /\ UNCHANGED <<grpcPc, grpcPayload, stub, channel, grpcShut, stubCalls, grpcResponse,
                 sendResult, mainCalls, initSuccess, tcpVars, syncVars, sanVars, wireVars>>

\* BridgeClient.connect: channel and stub are created and it returns True,
\* or creating them raised and it returns False; main returns on False.
BridgeConnect ==
  /\ grpcMain = "connect"
  /\ ~stub
  /\ \/ /\ stub' = TRUE
        /\ channel' = "open"
        /\ grpcMain' = "init"
     \/ /\ grpcMain' = "returned"
        /\ UNCHANGED <<stub, channel>>
  /\ UNCHANGED <<grpcPc, grpcPayload, grpcShut, stubCalls, grpcResponse, sendResult,
                 config, mainCalls, initSuccess, tcpVars, syncVars, sanVars, wireVars>>

\* main() calls BridgeClient.initialize_server, which awaits stub.InitServer.
MainInitServer ==
  /\ grpcMain = "init"
  /\ mainCalls' = Append(mainCalls, [op |-> "InitServer", request |-> NoRequest])
  /\ grpcMain' = "await_init"
  /\ UNCHANGED <<grpcPc, grpcPayload, stub, channel, grpcShut, stubCalls, grpcResponse,
                 sendResult, config, initSuccess, tcpVars, syncVars, sanVars, wireVars>>

\* `if not response or not response.success: return` (src/main.py 91-94).
InitialisedMut(r) == TRUE
Initialised(r) == r.kind = "pb2" /\ r.success

\* InitServer returns or raises (initialize_server then returns None); on
\* success main registers the INSERT callback, subscribes and installs the
\* signal handlers, else it returns.
MainSubscribe ==
  /\ grpcMain = "await_init"
  /\ \E r \in GrpcReplies \cup {GrpcNone} :
       /\ initSuccess' = (r \in GrpcReplies /\ r.success)
       /\ grpcMain' = IF Initialised(r) THEN "subscribed" ELSE "returned"
  /\ UNCHANGED <<grpcPc, grpcPayload, stub, channel, grpcShut, stubCalls, grpcResponse,
                 sendResult, config, mainCalls, tcpVars, syncVars, sanVars, wireVars>>

\* The payloads task g may be created with: the first task ranges over all
\* of GrpcEvents, each further task of a burst over a RUN signal and an
\* agents INSERT.
EventsFor(g) == IF g = 1 THEN DOMAIN GrpcEvents ELSE {1, 27}

\* The subscription callback creates a task running the handler; a channel
\* that is not subscribed yet, or was unsubscribed, delivers nothing.
GrpcDispatch(g) ==
  /\ grpcPc[g] = "idle"
  /\ grpcMain = "subscribed"
  /\ grpcShut = "up"
  /\ \E e \in EventsFor(g) : grpcPayload' = [grpcPayload EXCEPT ![g] = e]
  /\ grpcPc' = [grpcPc EXCEPT ![g] = "start"]
  /\ UNCHANGED <<stub, channel, grpcShut, stubCalls, grpcResponse, sendResult,
                 mainVars, tcpVars, syncVars, sanVars, wireVars>>

\* sanitize_data(payload) for each payload of GrpcEvents.
SafePayloads == [e \in DOMAIN GrpcEvents |-> sanitize_data(GrpcEvents[e])]

\* create_signal_request(safe_payload) for each payload of GrpcEvents.
SignalRequests == [e \in DOMAIN GrpcEvents |-> create_signal_request(SafePayloads[e])]

\* `if signal_request:` (line 105): a request was built.
RequestBuiltMut(signal_request) == TRUE
RequestBuilt(signal_request) == signal_request.t = "request"

\* handle_signal_insert from its first line to the first await that
\* suspends: sanitize_data, then BridgeClient.send_signal up to the stub
\* call (InitServer for the server-init message, else ProcessSignal with
\* the request create_signal_request built), or to its return when nothing
\* is sent.
HandleSignalInsert(g) ==
  /\ grpcPc[g] = "start"
  /\ HandlerOf(EventOf(g)) = "handle_signal_insert"
  /\ LET safe_payload == SafePayloads[grpcPayload[g]]
         signal_request == SignalRequests[grpcPayload[g]]
         call == IF IsServerInit(safe_payload)
                   THEN [op |-> "InitServer", request |-> NoRequest]
                   ELSE [op |-> "ProcessSignal", request |-> signal_request]
     IN IF stub /\ (IsServerInit(safe_payload) \/ RequestBuilt(signal_request))
          THEN /\ stubCalls' = [stubCalls EXCEPT ![g] = Append(@, call)]
               /\ grpcPc' = [grpcPc EXCEPT ![g] = "rpc"]
               /\ UNCHANGED sendResult
          ELSE /\ sendResult' = [sendResult EXCEPT ![g] = "False"]
               /\ grpcPc' = [grpcPc EXCEPT ![g] = "done"]
               /\ UNCHANGED stubCalls
  /\ UNCHANGED <<grpcPayload, stub, channel, grpcShut, grpcResponse,
                 mainVars, tcpVars, syncVars, sanVars, wireVars>>

\* pb2.CreateAgentRequest(agent_json=dict_to_struct(record))
CreateAgentRequest(record) == [NoRequest EXCEPT !.t = "create_agent", !.body = record]

\* pb2.DeleteAgentRequest(agent_id=agent_id)
DeleteAgentRequest(agent_id) == [NoRequest EXCEPT !.t = "delete_agent", !.agent_id = agent_id]

\* handle_agent_insert up to the awaited stub.CreateAgent, or to its return
\* when the record is empty or the stub is not set.
HandleAgentInsert(g) ==
  /\ grpcPc[g] = "start"
  /\ HandlerOf(EventOf(g)) = "handle_agent_insert"
  /\ LET safe_payload == SafePayloads[grpcPayload[g]]
         record == get(safe_payload, <<"data", "record">>, EmptyDict)
     IN IF IsTrue(record) /\ stub
          THEN /\ stubCalls' = [stubCalls EXCEPT ![g] =
                    Append(@, [op |-> "CreateAgent", request |-> CreateAgentRequest(record)])]
               /\ grpcPc' = [grpcPc EXCEPT ![g] = "rpc"]
          ELSE /\ grpcPc' = [grpcPc EXCEPT ![g] = "done"]
               /\ UNCHANGED stubCalls
  /\ UNCHANGED <<grpcPayload, stub, channel, grpcShut, grpcResponse, sendResult,
                 mainVars, tcpVars, syncVars, sanVars, wireVars>>

\* handle_agent_delete up to the awaited stub.DeleteAgent, or to its return
\* when the record is empty, has no id, or the stub is not set.
HandleAgentDelete(g) ==
  /\ grpcPc[g] = "start"
  /\ HandlerOf(EventOf(g)) = "handle_agent_delete"
  /\ LET safe_payload == SafePayloads[grpcPayload[g]]
         record == get(safe_payload, <<"data", "record">>, EmptyDict)
         agent_id == get(record, <<"id">>, PyInt(0))
     IN IF IsTrue(record) /\ IsTrue(agent_id) /\ stub
          THEN /\ stubCalls' = [stubCalls EXCEPT ![g] =
                    Append(@, [op |-> "DeleteAgent", request |-> DeleteAgentRequest(agent_id)])]
               /\ grpcPc' = [grpcPc EXCEPT ![g] = "rpc"]
          ELSE /\ grpcPc' = [grpcPc EXCEPT ![g] = "done"]
               /\ UNCHANGED stubCalls
  /\ UNCHANGED <<grpcPayload, stub, channel, grpcShut, grpcResponse, sendResult,
                 mainVars, tcpVars, syncVars, sanVars, wireVars>>

\* The awaited stub call returns or raises, and the handler that got no
\* response starts over and sends its request again.
StubReturnMut(g) ==
  /\ grpcPc[g] = "rpc"
  /\ \E r \in (IF channel = "closed" THEN {} ELSE GrpcReplies) \cup {GrpcNone} :
       /\ grpcResponse' = [grpcResponse EXCEPT ![g] = r]
       /\ grpcPc' = [grpcPc EXCEPT ![g] = IF r = GrpcNone THEN "start" ELSE "done"]
  /\ UNCHANGED <<grpcPayload, stub, channel, grpcShut, stubCalls, sendResult,
                 mainVars, tcpVars, syncVars, sanVars, wireVars>>

\* The awaited stub call returns a response or raises (on a closed channel
\* it can only raise); send_signal returns whether a response came and
\* reports success; the handler logs and ends.
StubReturn(g) ==
  /\ grpcPc[g] = "rpc"
  /\ \E r \in (IF channel = "closed" THEN {} ELSE GrpcReplies) \cup {GrpcNone} :
       /\ grpcResponse' = [grpcResponse EXCEPT ![g] = r]
       /\ IF HandlerOf(EventOf(g)) = "handle_signal_insert"
            THEN sendResult' = [sendResult EXCEPT ![g] =
                                  IF r.kind = "pb2" /\ r.success THEN "True" ELSE "False"]
            ELSE UNCHANGED sendResult
  /\ grpcPc' = [grpcPc EXCEPT ![g] = "done"]
  /\ UNCHANGED <<grpcPayload, stub, channel, grpcShut, stubCalls,
                 mainVars, tcpVars, syncVars, sanVars, wireVars>>

\* The Supabase writes handle_signal_insert issues: it has none.
GrpcWriteBack(g) == <<>>

\* shutdown (src/main.py), first await: every channel is unsubscribed.  The
\* signal handlers are installed after connect and subscribe.  The loop
\* runs its ready tasks in the order they were created: a handler task
\* created before the signal came has run to its first await by now.
ShutdownUnsubscribe ==
  /\ grpcMain = "subscribed"
  /\ grpcShut = "up"
  /\ \A g \in GrpcTasks : grpcPc[g] # "start"
  /\ grpcShut' = "unsubscribed"
  /\ UNCHANGED <<grpcPc, grpcPayload, stub, channel, stubCalls, grpcResponse, sendResult,
                 mainVars, tcpVars, syncVars, sanVars, wireVars>>

\* shutdown, second await: BridgeClient.close closes the channel it holds.
ShutdownClose ==
  /\ grpcShut = "unsubscribed"
  /\ grpcShut' = "closed"
  /\ channel' = IF channel = "open" THEN "closed" ELSE channel
  /\ UNCHANGED <<grpcPc, grpcPayload, stub, stubCalls, grpcResponse, sendResult,
                 mainVars, tcpVars, syncVars, sanVars, wireVars>>

\* shutdown, last line: stop_event.set(); main wakes up and returns.
ShutdownSet ==
  /\ grpcShut = "closed"
  /\ grpcShut' = "stopped"
  /\ UNCHANGED <<grpcPc, grpcPayload, stub, channel, stubCalls, grpcResponse, sendResult,
                 mainVars, tcpVars, syncVars, sanVars, wireVars>>

\* asyncio.run(main()) after main returned: every task that has not
\* finished is cancelled.
GrpcCancel(g) ==
  /\ grpcShut = "stopped"
  /\ grpcPc[g] \in {"start", "rpc"}
  /\ grpcPc' = [grpcPc EXCEPT ![g] = "cancelled"]
  /\ UNCHANGED <<grpcPayload, stub, channel, grpcShut, stubCalls, grpcResponse, sendResult,
                 mainVars, tcpVars, syncVars, sanVars, wireVars>>

GrpcNext ==
  \/ MainStart
  \/ BridgeConnect
  \/ MainInitServer
  \/ MainSubscribe
  \/ \E g \in GrpcTasks : GrpcDispatch(g)
  \/ \E g \in GrpcTasks : HandleSignalInsert(g)
  \/ \E g \in GrpcTasks : HandleAgentInsert(g)
  \/ \E g \in GrpcTasks : HandleAgentDelete(g)
  \/ \E g \in GrpcTasks : StubReturn(g)
  \/ ShutdownUnsubscribe
  \/ ShutdownClose
  \/ ShutdownSet
  \/ \E g \in GrpcTasks : GrpcCancel(g)

\* ------------------------------------- create_sync_payload on its inputs

\* A key the dict does not have.
Absent == [t |-> "absent", v |-> 0]

\* The entry k: v of a dict literal, or no entry when v is Absent.
Entry(k, v) == IF v = Absent THEN [x \in {} |-> PyNone] ELSE (k :> v)

\* The values tried for the scope key.
ScopeInputs ==
  { Absent, PyNone, PyStr(sALL), PyStr(<<"a", "l", "l">>), PyStr(sSPECIFIC),
    PyStr(<<"S", "p", "e", "c", "i", "f", "i", "c">>), PyStr(sFOO), PyStr(<<>>), PyInt(5) }

\* The values tried as elements of entity_types.
TypeInputs ==
  { PyStr(sAGENT), PyStr(<<"a", "g", "e", "n", "t">>), PyStr(sSTEP), PyStr(sFOO), PyInt(7) }

\* All lists over S of length at most n.
ListsUpTo(S, n) == UNION { [1..k -> S] : k \in 0..n }

\* The initial_data dicts create_sync_payload is applied to.
SyncInputs ==
  { PyDict(Entry("scope", sc) @@ Entry("entity_types", ty)
           @@ Entry("entity_uuids", PyList(<<PyStr(<<"e", "1">>)>>))) :
      sc \in ScopeInputs,
      ty \in {Absent} \cup { PyList(q) : q \in ListsUpTo(TypeInputs, MaxTypes) } }

SyncIdle ==
  /\ syncPc = "idle"
  /\ syncIn = EmptyDict
  /\ syncOut = SyncRaised

SyncInit ==
  /\ syncPc = "call"
  /\ syncIn \in SyncInputs
  /\ syncOut = SyncRaised

\* payload = create_sync_payload(data)
SyncApply ==
  /\ syncPc = "call"
  /\ syncOut' = create_sync_payload(syncIn)
  /\ syncPc' = "returned"
  /\ UNCHANGED <<syncIn, tcpVars, grpcVars, sanVars, wireVars>>

SyncNext == SyncApply

\* ------------------------------------------ sanitize_data on its inputs

\* The string leaves: every string over an ordinary character and U+0000,
\* up to MaxStrLen characters.
SanStrings == { PyStr(q) : q \in ListsUpTo({"a", NUL}, MaxStrLen) }

\* Scalars, strings and None.
SanLeaves == SanStrings \cup {PyInt(5), PyNone}

\* The dicts over the keys "k" and NulKey with values in S.
DictsOver(S) ==
  { PyDict(Entry("k", a) @@ Entry(NulKey, b)) : a \in S \cup {Absent}, b \in S \cup {Absent} }

\* Lists and dicts of leaves.
SanFlat == { PyList(q) : q \in ListsUpTo(SanLeaves, 2) } \cup DictsOver(SanLeaves)

\* A list or a dict holding one container.
SanNested == { PyList(<<c>>) : c \in SanFlat } \cup { PyDict("k" :> c) : c \in SanFlat }

\* The values sanitize_data is applied to.
SanInputs == SanLeaves \cup SanFlat \cup SanNested

SanIdle ==
  /\ sanPc = "idle"
  /\ sanIn = PyNone
  /\ sanOut = PyNone
  /\ sanOut2 = PyNone

SanInit ==
  /\ sanPc = "call"
  /\ sanIn \in SanInputs
  /\ sanOut = PyNone
  /\ sanOut2 = PyNone

\* safe_payload = sanitize_data(payload)
SanApply ==
  /\ sanPc = "call"
  /\ sanOut' = sanitize_data(sanIn)
  /\ sanPc' = "once"
  /\ UNCHANGED <<sanIn, sanOut2, tcpVars, grpcVars, syncVars, wireVars>>

\* sanitize_data applied to a value that went through it before (line 122
\* logs sanitize_data(data) for the payload handle_signal_insert sanitized).
SanAgain ==
  /\ sanPc = "once"
  /\ sanOut2' = sanitize_data(sanOut)
  /\ sanPc' = "twice"
  /\ UNCHANGED <<sanIn, sanOut, tcpVars, grpcVars, syncVars, wireVars>>

SanNext == SanApply \/ SanAgain

\* ------------------------------------- send_signal (main.py), byte by byte

\* recv(4096)
RecvSize == 4096

\* The first n elements of a sequence (all of it when it is shorter).
Take(q, n) == SubSeq(q, 1, IF n < Len(q) THEN n ELSE Len(q))

\* The elements after the first n.
Drop(q, n) == SubSeq(q, (IF n < Len(q) THEN n ELSE Len(q)) + 1, Len(q))

\* The bytes of a message of n bytes: the i-th byte is written i.
Bytes(n) == [i \in 1..n |-> i]

WireIdle ==
  /\ wirePc = "idle"
  /\ wireMsg = <<>>
  /\ wireSent = <<>>
  /\ wireSrvData = <<>>
  /\ wireBody = <<>>
  /\ wireInFlight = <<>>
  /\ wireBuf = <<>>
  /\ wireData = <<>>

\* send_signal after connect() succeeded: the message is encoded, the
\* engine will answer with some body.
WireInit ==
  /\ wirePc = "sendall"
  /\ wireMsg \in { Bytes(n) : n \in 1..2 }
  /\ wireSent = <<>>
  /\ wireSrvData = <<>>
  /\ wireBody \in { Bytes(n) : n \in 1..MaxBody }
  /\ wireInFlight = <<>>
  /\ wireBuf = <<>>
  /\ wireData = <<>>

\* self.socket.sendall(message): the encoded JSON text goes out as it is.
WireSendAll ==
  /\ wirePc = "sendall"
  /\ wireSent' = wireMsg
  /\ wirePc' = "sendwait"
  /\ UNCHANGED <<wireMsg, wireSrvData, wireBody, wireInFlight, wireBuf, wireData,
                 tcpVars, grpcVars, syncVars, sanVars>>

\* The engine's data = client.recv(4096) returns the first k bytes of the
\* request, and it answers: client.sendall(response_data).
WireEngineWrite(k) ==
  /\ wirePc = "sendwait"
  /\ k \in 1..Len(wireSent)
  /\ wireSrvData' = Take(wireSent, k)
  /\ wireInFlight' = wireBody
  /\ wirePc' = "recv"
  /\ UNCHANGED <<wireMsg, wireSent, wireBody, wireBuf, wireData,
                 tcpVars, grpcVars, syncVars, sanVars>>

\* The transport delivers the next k bytes of the response to the bridge.
WireDeliver(k) ==
  /\ wirePc = "recv"
  /\ k \in 1..Len(wireInFlight)
  /\ wireBuf' = wireBuf \o Take(wireInFlight, k)
  /\ wireInFlight' = Drop(wireInFlight, k)
  /\ UNCHANGED <<wirePc, wireMsg, wireSrvData, wireSent, wireBody, wireData,
                 tcpVars, grpcVars, syncVars, sanVars>>

\* response_data = self.socket.recv(4096): the call blocks until bytes are
\* there and returns what is there, at most RecvSize bytes; it is made once.
WireRecv ==
  /\ wirePc = "recv"
  /\ wireBuf # <<>>
  /\ wireData' = Take(wireBuf, RecvSize)
  /\ wireBuf' = Drop(wireBuf, RecvSize)
  /\ wirePc' = "done"
  /\ UNCHANGED <<wireMsg, wireSrvData, wireSent, wireBody, wireInFlight,
                 tcpVars, grpcVars, syncVars, sanVars>>

WireNext ==
  \/ WireSendAll
  \/ \E k \in 1..2 : WireEngineWrite(k)
  \/ \E k \in 1..MaxBody : WireDeliver(k)
  \/ WireRecv

\* ------------------------------------------------------- specifications

vars == <<tcpVars, grpcVars, syncVars, sanVars, wireVars>>

\* server/bridge/main.py: events through the TCP EngineCommunicator.
Init == TcpInit /\ GrpcInit /\ SyncIdle /\ SanIdle /\ WireIdle

Next == TcpNext

Spec == Init /\ [][Next]_vars

\* server/bridge/src/lib.py: events through the gRPC BridgeClient.
\* server/bridge/main.py with SIGINT / SIGTERM and shutdown().
TcpStopNext ==
  \/ TcpNext
  \/ TcpSignal
  \/ TcpShutdownUnsubscribe
  \/ TcpShutdownSet

\* What the asyncio loop guarantees for main.py: a handler task that can
\* run is run, a blocking socket call returns when it has what it waits
\* for, and shutdown() goes on when the loop is free.  Nothing makes the
\* engine answer or close a connection, the database deliver an event or
\* the operator send a signal.
TcpFairness ==
  /\ \A t \in Tasks : WF_vars(NewSignalStart(t))
  /\ \A t \in Tasks : WF_vars(SignalUpdateStart(t))
  /\ \A t \in Tasks : WF_vars(AgentChangeStart(t))
  /\ \A t \in Tasks : WF_vars(Connect(t))
  /\ \A t \in Tasks : WF_vars(SendAll(t))
  /\ \A t \in Tasks : WF_vars(RecvData(t))
  /\ \A t \in Tasks : WF_vars(Finally(t))
  /\ \A t \in Tasks : WF_vars(NewSignalHandle(t))
  /\ \A t \in Tasks : WF_vars(SignalUpdateHandle(t))
  /\ \A t \in Tasks : WF_vars(AgentChangeHandle(t))
  /\ WF_vars(TcpShutdownUnsubscribe)
  /\ WF_vars(TcpShutdownSet)

SpecTcpStop == Init /\ [][TcpStopNext]_vars /\ TcpFairness

SpecGrpc == Init /\ [][GrpcNext]_vars

\* What the asyncio loop guarantees: a step of main(), of a handler task or
\* of shutdown() that is ready to run is run.  Nothing makes the engine
\* answer a call (MainSubscribe, StubReturn), the database deliver an event
\* or the operator send a signal.
GrpcFairness ==
  /\ WF_vars(MainStart)
  /\ WF_vars(BridgeConnect)
  /\ WF_vars(MainInitServer)
  /\ \A g \in GrpcTasks : WF_vars(HandleSignalInsert(g))
  /\ \A g \in GrpcTasks : WF_vars(HandleAgentInsert(g))
  /\ \A g \in GrpcTasks : WF_vars(HandleAgentDelete(g))
  /\ WF_vars(ShutdownClose)
  /\ WF_vars(ShutdownSet)
  /\ \A g \in GrpcTasks : WF_vars(GrpcCancel(g))

\* The gRPC bridge under the scheduling of the asyncio loop.
SpecGrpcFair == Init /\ [][GrpcNext]_vars /\ GrpcFairness

\* server/bridge/src/lib.py: create_sync_payload applied to one input.
InitSync == TcpInit /\ GrpcInit /\ SyncInit /\ SanIdle /\ WireIdle

SpecSync == InitSync /\ [][SyncNext]_vars

\* server/bridge/src/lib.py: sanitize_data applied to one value.
InitSan == TcpInit /\ GrpcInit /\ SyncIdle /\ SanInit /\ WireIdle

SpecSan == InitSan /\ [][SanNext]_vars

\* server/bridge/main.py: the bytes of one send_signal exchange.
InitWire == TcpInit /\ GrpcInit /\ SyncIdle /\ SanIdle /\ WireInit

SpecWire == InitWire /\ [][WireNext]_vars

\* ------------------------------------------------------------ claims: TCP

\* Task t has finished its handler.
Finished(t) == pc[t] = "done"

\* Task t holds a response that came from the engine.
GotResponse(t) == response[t].kind \in {"dict", "nondict"}

\* Number of writes of kind op that task t issued.
Count(t, op) == Cardinality({i \in DOMAIN dbCalls[t] : dbCalls[t][i].op = op})

\* C1: with several events in flight through the one shared communicator,
\* under every interleaving the event loop allows, the response a task holds
\* answers that task's own request, and every session id a task writes back
\* is the one the engine issued for that task's request, under its own
\* signal id.
C1_ResponsesAttributed ==
  \A t \in Tasks :
    /\ GotResponse(t) => response[t].req = t
    /\ \A i \in DOMAIN dbCalls[t] :
         /\ dbCalls[t][i].id = SignalId(t)
         /\ (dbCalls[t][i].op = "session" /\ dbCalls[t][i].arg # None)
               => dbCalls[t][i].arg = SessionFor(t)

\* C1 witness: one task has written its own session back while another
\* task, created before that, is suspended in the middle of its handler.
C1_Witness ==
  \E t1, t2 \in Tasks :
    /\ t1 # t2
    /\ Finished(t1) /\ GotResponse(t1)
    /\ \E i \in DOMAIN dbCalls[t1] :
         dbCalls[t1][i] = [op |-> "session", id |-> SignalId(t1), arg |-> SessionFor(t1)]
    /\ pc[t2] = "connect" /\ Len(dbCalls[t2]) = 1

\* The engine response of TCP task t reports success / failure.
TcpSuccess(t) == response[t].kind = "dict" /\ response[t].status = "success"
TcpFailure(t) == response[t].kind = "dict" /\ response[t].status = "error"

\* TCP task t handled a signals INSERT and its request went to send_signal.
TcpSignalSent(t) ==
  /\ payload[t].kind = "new_signal"
  /\ payload[t].id # None /\ payload[t].agent_id # None

\* ----------------------------------------------------------- claims: gRPC

GrpcFinished(g) == grpcPc[g] = "done"

\* Task g handles a signals INSERT (not the server-init message).
GrpcSignalInsert(g) ==
  /\ grpcPayload[g] # NoEvent
  /\ ~IsServerInit(EventOf(g))
  /\ HandlerOf(EventOf(g)) = "handle_signal_insert"

\* The request create_signal_request builds for each payload, sanitized as
\* handle_signal_insert does.
Translated ==
  [e \in DOMAIN GrpcEvents |-> create_signal_request(sanitize_data(GrpcEvents[e]))]

\* The request create_signal_request builds for the payload of task g.
RequestOf(g) == Translated[grpcPayload[g]]

\* ProcessSignal calls task g made.
ProcessSignalCalls(g) ==
  {i \in DOMAIN stubCalls[g] : stubCalls[g][i].op = "ProcessSignal"}

\* Number of Supabase writes of kind op that gRPC task g issued.
GrpcCount(g, op) ==
  Cardinality({i \in DOMAIN GrpcWriteBack(g) : GrpcWriteBack(g)[i].op = op})

\* C2 on main.py: a finished handle_new_signal whose response has status
\* success and a session id wrote that session under its signal id once,
\* and wrote no error.
C2_Tcp ==
  \A t \in Tasks :
    (Finished(t) /\ TcpSignalSent(t) /\ TcpSuccess(t) /\ response[t].session_id # None)
      => /\ Count(t, "session") = 1
         /\ Count(t, "error") = 0
         /\ \E i \in DOMAIN dbCalls[t] :
              dbCalls[t][i] = [op |-> "session", id |-> SignalId(t), arg |-> response[t].session_id]

\* C2 on lib.py: the same for a finished handle_signal_insert.
C2_Grpc ==
  \A g \in GrpcTasks :
    (GrpcFinished(g) /\ GrpcSignalInsert(g) /\ grpcResponse[g].kind = "pb2"
       /\ grpcResponse[g].success /\ grpcResponse[g].runtime_session_uuid # "")
      => GrpcCount(g, "session") = 1 /\ GrpcCount(g, "error") = 0

\* C2: every signal-insert event whose engine response reports success and
\* carries a session id gets exactly one attach-session write-back, with
\* its id and that session id, and no mark-failed write-back.
C2_AttachSessionOnce == C2_Tcp /\ C2_Grpc

\* C3 on main.py: a finished handle_new_signal whose response reports
\* failure with a message wrote that message as error once, no session.
C3_Tcp ==
  \A t \in Tasks :
    (Finished(t) /\ TcpSignalSent(t) /\ TcpFailure(t) /\ response[t].message # None)
      => /\ Count(t, "error") = 1
         /\ Count(t, "session") = 0
         /\ \E i \in DOMAIN dbCalls[t] :
              dbCalls[t][i] = [op |-> "error", id |-> SignalId(t), arg |-> response[t].message]

\* C3 on lib.py.
C3_Grpc ==
  \A g \in GrpcTasks :
    (GrpcFinished(g) /\ GrpcSignalInsert(g) /\ grpcResponse[g].kind = "pb2"
       /\ ~grpcResponse[g].success /\ grpcResponse[g].message # "")
      => GrpcCount(g, "error") = 1 /\ GrpcCount(g, "session") = 0

\* C3: every signal-insert event whose engine response reports failure with
\* a message gets exactly one mark-failed write-back, with its id and that
\* message, and no attach-session write-back.
C3_MarkFailedOnce == C3_Tcp /\ C3_Grpc

\* C4 on main.py: a finished handle_new_signal that got no response from
\* send_signal wrote an error.
C4_Tcp ==
  \A t \in Tasks :
    (Finished(t) /\ TcpSignalSent(t) /\ response[t].kind = "none")
      => Count(t, "error") >= 1

\* C4 on lib.py: a finished handle_signal_insert whose request went to
\* ProcessSignal and that got no response (the call raised).
C4_Grpc ==
  \A g \in GrpcTasks :
    (GrpcFinished(g) /\ GrpcSignalInsert(g) /\ ProcessSignalCalls(g) # {}
       /\ grpcResponse[g].kind = "none")
      => GrpcCount(g, "error") >= 1

\* C4: a user-facing signal-insert event for which no response is obtained
\* from the engine never finishes handling without a mark-failed write-back.
C4_NoResponseMarkedFailed == C4_Tcp /\ C4_Grpc

\* C5: when the engine response reports success but carries no session id,
\* the handler performs no attach-session and no mark-failed write-back.
C5_SuccessWithoutSessionLoggedOnly ==
  /\ \A t \in Tasks :
       (TcpSignalSent(t) /\ TcpSuccess(t) /\ response[t].session_id = None)
         => Count(t, "session") = 0 /\ Count(t, "error") = 0
  /\ \A g \in GrpcTasks :
       (GrpcSignalInsert(g) /\ grpcResponse[g].kind = "pb2" /\ grpcResponse[g].success
          /\ grpcResponse[g].runtime_session_uuid = "")
         => GrpcCount(g, "session") = 0 /\ GrpcCount(g, "error") = 0

\* Translation of the payload of task g fails.
TranslationFails(g) == GrpcSignalInsert(g) /\ RequestOf(g).t = "none"

\* C6: whenever translation of an event fails, no request for that event
\* is sent to the engine: the task never calls ProcessSignal, never waits
\* on the stub, and send_signal returns False.
C6_TranslationFailureNotSent ==
  \A g \in GrpcTasks :
    TranslationFails(g) =>
      /\ stubCalls[g] = <<>>
      /\ grpcPc[g] # "rpc"
      /\ GrpcFinished(g) => sendResult[g] = "False"

\* C6 witness: with the stub connected, a task whose record names a valid
\* signal_type but whose request could not be built (an exception inside
\* create_sync_payload) has finished with send_signal returning False.
C6_Witness ==
  \E g \in GrpcTasks :
    /\ stub /\ GrpcFinished(g) /\ TranslationFails(g)
    /\ ~SignalTypeOf(get(sanitize_data(EventOf(g)), <<"data", "record">>, EmptyDict)).raised
    /\ sendResult[g] = "False" /\ stubCalls[g] = <<>>

\* The payload of task g is a signals event whose record has no
\* signal_type key.
NoSignalTypeField(g) ==
  /\ GrpcSignalInsert(g)
  /\ LET record == get(EventOf(g), <<"data", "record">>, EmptyDict)
     IN IsTrue(record) /\ "signal_type" \notin DOMAIN record.v

\* C7: an event on the signals table whose record has no signal_type field
\* fails translation (no request is returned) and produces no send.
C7_MissingSignalTypeNotSent ==
  \A g \in GrpcTasks :
    NoSignalTypeField(g) =>
      /\ RequestOf(g) = NoRequest
      /\ stubCalls[g] = <<>>
      /\ grpcPc[g] # "rpc"

\* C7 witness: with the stub connected, a task whose record has no
\* signal_type field has finished without any call on the stub.
C7_Witness ==
  \E g \in GrpcTasks :
    stub /\ GrpcFinished(g) /\ NoSignalTypeField(g) /\ sendResult[g] = "False"

\* The closed symbol table of the Command operation (spec.md, section 3).
CommandOperations ==
  { sCREATE, <<"U", "P", "D", "A", "T", "E">>, <<"D", "E", "L", "E", "T", "E">>, sRUN }

\* The record of task g gives a required enum a value that matches no
\* symbol: the signal kind, or the operation of a RUN command.
UnmatchedRequiredEnum(g) ==
  /\ GrpcSignalInsert(g)
  /\ LET record == get(EventOf(g), <<"data", "record">>, EmptyDict)
         kind == get(record, <<"signal_type">>, Absent)
         operation == get(get(record, <<"initial_data">>, EmptyDict), <<"operation">>, Absent)
     IN \/ kind.t = "str" /\ kind.v # <<>> /\ Upper(kind.v) \notin DOMAIN SignalTypeEnum
        \/ /\ kind.t = "str" /\ Upper(kind.v) = sRUN
           /\ operation.t = "str" /\ Upper(operation.v) \notin CommandOperations

\* C8: a required enum value that is present but matches no symbol (the
\* signal kind, or the command operation when given) makes translation
\* fail: no request is built from the event and nothing is sent.
C8_UnmatchedEnumDropped ==
  \A g \in GrpcTasks :
    (UnmatchedRequiredEnum(g) /\ grpcPc[g] \in {"rpc", "done"})
      => RequestOf(g).t = "none" /\ stubCalls[g] = <<>>

\* ----------------------------------------------- claims: create_sync_payload

SyncReturned == syncPc = "returned"

\* The scope key of the input, Absent when the key is missing or null.
ScopeGiven == get(syncIn, <<"scope">>, Absent)

\* C9: Sync.scope takes the default ALL only when the scope field is
\* absent; a scope that is present but matches no known scope never yields
\* a payload with the default scope.
C9_DefaultScopeOnlyWhenAbsent ==
  (/\ SyncReturned
   /\ ScopeGiven.t = "str"
   /\ Upper(ScopeGiven.v) \notin DOMAIN SyncScopeEnum)
    => ~(~syncOut.raised /\ syncOut.scope = "ALL")

\* The members named by the elements of a list, in order: an element that
\* names no entity type (case-insensitively) contributes nothing.
RECURSIVE KnownTypes(_)
KnownTypes(elems) ==
  IF elems = <<>> THEN <<>>
  ELSE (IF Head(elems).t = "str" /\ Upper(Head(elems).v) \in DOMAIN EntityTypeEnum
          THEN <<EntityTypeEnum[Upper(Head(elems).v)]>>
          ELSE <<>>) \o KnownTypes(Tail(elems))

\* C10: for every list of entity_types (with a usable scope), the payload
\* is produced and its entity_types are exactly the input elements naming a
\* known type, in input order; no unknown element fails the event.
C10_EntityTypesElementwise ==
  (/\ SyncReturned
   /\ ScopeGiven.t \in {"absent", "str"}
   /\ get(syncIn, <<"entity_types">>, Absent).t = "list")
    => /\ ~syncOut.raised
       /\ syncOut.entity_types = KnownTypes(get(syncIn, <<"entity_types">>, Absent).v)

\* ------------------------------------ claims: create_signal_request (2)

\* The record create_signal_request reads for the payload of task g.
RecordOf(g) == get(sanitize_data(EventOf(g)), <<"data", "record">>, EmptyDict)

\* Task g handed a request built by create_signal_request to the stub.
SignalRequestSent(g) ==
  /\ GrpcSignalInsert(g)
  /\ ProcessSignalCalls(g) # {}
  /\ RequestOf(g).t = "request"

\* The request carries the value v in one of its identifier fields.
Carries(request, v) == v.t = "str" /\ v \in {request.signal_id, request.agent_id}

\* C11: every request built from a signals record that has a global_uuid
\* and a user_requested_uuid carries the first as its correlation id and
\* the second as its user correlation id, whatever its kind.
C11_CorrelationIdsCarried ==
  \A g \in GrpcTasks :
    (/\ SignalRequestSent(g)
     /\ get(RecordOf(g), <<"global_uuid">>, Absent).t = "str"
     /\ get(RecordOf(g), <<"user_requested_uuid">>, Absent).t = "str")
      => /\ Carries(RequestOf(g), get(RecordOf(g), <<"global_uuid">>, Absent))
         /\ Carries(RequestOf(g), get(RecordOf(g), <<"user_requested_uuid">>, Absent))

\* An identifier with no value: absent, None, zero or the empty string.
NoIdentifier(v) == v.t \in {"absent", "none"} \/ ~IsTrue(v)

\* The record of task g lacks a required identifying field: a correlation
\* identifier, or the entity id of a RUN command.
MissingIdentifier(g) ==
  \/ NoIdentifier(get(RecordOf(g), <<"global_uuid">>, Absent))
  \/ NoIdentifier(get(RecordOf(g), <<"user_requested_uuid">>, Absent))
  \/ /\ RequestOf(g).signal_type = "RUN"
     /\ NoIdentifier(get(InitialData(RecordOf(g)), <<"entity_uuid">>, Absent))

\* C12: a record that lacks a required identifying field fails translation
\* and its event is dropped, and no request goes to the engine with an
\* identifier field holding the default 0 or an empty value.
C12_MissingIdentifierDropped ==
  \A g \in GrpcTasks :
    /\ (GrpcSignalInsert(g) /\ grpcPc[g] \in {"rpc", "done"} /\ MissingIdentifier(g))
         => RequestOf(g).t = "none" /\ ProcessSignalCalls(g) = {}
    /\ \A i \in ProcessSignalCalls(g) :
         /\ ~NoIdentifier(stubCalls[g][i].request.signal_id)
         /\ ~NoIdentifier(stubCalls[g][i].request.agent_id)

\* The request holds the payload variant of its signal_type and no other:
\* a Struct with a "data" member for RUN and FYI, a SyncPayload for SYNC.
OnePayload(request) ==
  CASE request.signal_type = "RUN" ->
         /\ request.payload = "run_data"
         /\ request.body.t = "dict" /\ DOMAIN request.body.v = {"data"}
         /\ request.sync = SyncRaised
    [] request.signal_type = "SYNC" ->
         /\ request.payload = "sync"
         /\ request.body = PyNone
         /\ ~request.sync.raised
    [] request.signal_type = "FYI" ->
         /\ request.payload = "fyi_data"
         /\ request.body.t = "dict" /\ DOMAIN request.body.v = {"data"}
         /\ request.sync = SyncRaised
    [] OTHER -> FALSE

\* C13: every request create_signal_request returned, and every request
\* handed to ProcessSignal, carries exactly the payload variant selected by
\* its signal_type: none without a payload, none with another kind's.
C13_ExactlyOnePayload ==
  \A g \in GrpcTasks :
    /\ (GrpcSignalInsert(g) /\ RequestOf(g).t = "request") => OnePayload(RequestOf(g))
    /\ \A i \in ProcessSignalCalls(g) : OnePayload(stubCalls[g][i].request)

\* C13 witness: an FYI request with its fyi_data payload went to the stub.
C13_Witness ==
  \E g \in GrpcTasks :
    /\ SignalRequestSent(g)
    /\ \E i \in ProcessSignalCalls(g) :
         /\ stubCalls[g][i].request.signal_type = "FYI"
         /\ stubCalls[g][i].request.payload = "fyi_data"

\* The record of task g names a signal kind and its initial_data is text
\* that json.loads rejects.
UndecodableBody(g) ==
  /\ GrpcSignalInsert(g)
  /\ ~SignalTypeOf(RecordOf(g)).raised
  /\ LET initial_data == get(RecordOf(g), <<"initial_data">>, Absent)
     IN initial_data.t = "str" /\ json_loads(initial_data.v).raised

\* The SyncPayload of an empty initial_data.
DefaultSync == [raised |-> FALSE, scope |-> "ALL", entity_uuids |-> <<>>, entity_types |-> <<>>]

\* C14: a record whose initial_data is a JSON-encoded string that fails to
\* parse still translates: the request has the record's signal kind and
\* its payload is built from the empty dict, and that request is what is
\* sent.
C14_UndecodableBodyDegrades ==
  \A g \in GrpcTasks :
    UndecodableBody(g) =>
      /\ RequestOf(g).t = "request"
      /\ RequestOf(g).signal_type = SignalTypeOf(RecordOf(g)).value
      /\ RequestOf(g).signal_type \in {"RUN", "FYI"}
           => RequestOf(g).body = PyDict([data |-> EmptyDict])
      /\ RequestOf(g).signal_type = "SYNC" => RequestOf(g).sync = DefaultSync
      /\ \A i \in ProcessSignalCalls(g) : stubCalls[g][i].request = RequestOf(g)

\* C14 witness: a SYNC record with an undecodable body was translated and
\* its request is waiting on ProcessSignal.
C14_Witness ==
  \E g \in GrpcTasks :
    /\ UndecodableBody(g)
    /\ SignalTypeOf(RecordOf(g)).value = "SYNC"
    /\ grpcPc[g] = "rpc" /\ ProcessSignalCalls(g) # {}

\* ------------------------------------------------- claims: sanitize_data

\* C15: sanitize_data is idempotent: sanitizing the result of
\* sanitize_data again gives that result back, for every nested value of
\* scalars, strings, lists and mappings.
C15_SanitizeIdempotent ==
  sanPc = "twice" => sanOut2 = sanOut

\* C15 witness: the value was sanitized twice, and the first call changed
\* a string nested in a container.
C15_Witness ==
  /\ sanPc = "twice"
  /\ sanIn.t \in {"list", "dict"}
  /\ sanOut # sanIn

\* The characters of a string that are not U+0000, in order.
RECURSIVE WithoutNul(_)
WithoutNul(chars) ==
  IF chars = <<>> THEN <<>>
  ELSE (IF Head(chars) = NUL THEN <<>> ELSE <<Head(chars)>>) \o WithoutNul(Tail(chars))

\* y is x with every string leaf stripped of its null characters and
\* everything else as in x: same keys, same lengths and order, same
\* non-string leaves.
RECURSIVE SameButNul(_, _)
SameButNul(x, y) ==
  CASE x.t = "str" ->
         /\ y.t = "str"
         /\ y.v = WithoutNul(x.v)
         /\ \A i \in DOMAIN y.v : y.v[i] # NUL
    [] x.t = "dict" ->
         /\ y.t = "dict"
         /\ DOMAIN y.v = DOMAIN x.v
         /\ \A k \in DOMAIN x.v : SameButNul(x.v[k], y.v[k])
    [] x.t = "list" ->
         /\ y.t = "list"
         /\ Len(y.v) = Len(x.v)
         /\ \A i \in DOMAIN x.v : SameButNul(x.v[i], y.v[i])
    [] OTHER -> y = x

\* C16: the result of sanitize_data has the shape of its input, its
\* non-string leaves are those of the input, and each string leaf is the
\* input leaf without its null characters, so it holds none.
C16_SanitizeShape ==
  sanPc \in {"once", "twice"} => SameButNul(sanIn, sanOut)

\* A string with U+0000 in it.
HasNulChar(x) == x.t = "str" /\ \E i \in DOMAIN x.v : x.v[i] = NUL

\* C16 witness: a list inside a dict held a string with null characters
\* next to an int, and the call has returned.
C16_Witness ==
  /\ sanPc = "once"
  /\ sanIn.t = "dict" /\ "k" \in DOMAIN sanIn.v
  /\ sanIn.v["k"].t = "list" /\ Len(sanIn.v["k"].v) = 2
  /\ HasNulChar(sanIn.v["k"].v[1])
  /\ sanIn.v["k"].v[2] = PyInt(5)
  /\ sanOut # sanIn

\* ------------------------------------------------ claims: gRPC bridge (2)

\* A null character somewhere in the string content of a value: in a
\* string leaf or in a mapping key.
RECURSIVE HasNul(_)
HasNul(x) ==
  CASE x.t = "str" -> \E i \in DOMAIN x.v : x.v[i] = NUL
    [] x.t = "dict" -> \E k \in DOMAIN x.v : k = NulKey \/ HasNul(x.v[k])
    [] x.t = "list" -> \E i \in DOMAIN x.v : HasNul(x.v[i])
    [] OTHER -> FALSE

\* A null character somewhere in a request message.
RequestHasNul(request) ==
  \/ HasNul(request.signal_id)
  \/ HasNul(request.agent_id)
  \/ HasNul(request.body)
  \/ \E i \in DOMAIN request.sync.entity_uuids :
       \E j \in DOMAIN request.sync.entity_uuids[i] : request.sync.entity_uuids[i][j] = NUL

\* C17: no request handed to the engine stub by handle_signal_insert,
\* handle_agent_insert or handle_agent_delete holds a null character
\* anywhere in its string content, values and mapping keys alike.
C17_NoNulReachesStub ==
  \A g \in GrpcTasks :
    \A i \in DOMAIN stubCalls[g] : ~RequestHasNul(stubCalls[g][i].request)

\* --------------------------------------------- claims: stream transport

\* The 4-byte big-endian encoding of n.
BigEndian4(n) ==
  << (n \div 16777216) % 256, (n \div 65536) % 256, (n \div 256) % 256, n % 256 >>

\* A message as the length-prefixed framing puts it on the wire.
Framed(body) == BigEndian4(Len(body)) \o body

\* C18: what the bridge writes to the socket is the 4-byte big-endian
\* length of its message followed by the message, and when send_signal has
\* read the response it holds exactly the bytes of the body the engine
\* wrote, in however many pieces the transport delivered them.
C18_FramedRoundTrip ==
  wirePc = "done" =>
    /\ wireSent = Framed(wireMsg)
    /\ wireData = wireBody

\* ------------------------------------------- claims: connection, shutdown

\* The sockets of the communicator that hold an established connection.
OpenConnections == {s \in Sockets : conns[s].open /\ conns[s].connected}

\* C19: the communicator holds at most one open connection to the engine
\* at any time, with several handlers in flight and a connect per request:
\* when a new connection is established no earlier one is still open.
C19_OneConnection ==
  /\ Cardinality(OpenConnections) <= 1
  /\ OpenConnections \subseteq {socket}

\* C19 witness: a second connection is established after the exchange of
\* an earlier one has ended with a response and its socket has been closed.
C19_Witness ==
  \E t1, t2 \in Tasks :
    /\ t1 # t2
    /\ pc[t1] \in {"handle", "done"} /\ GotResponse(t1)
    /\ ~conns[t1].open
    /\ OpenConnections = {t2}

\* A task of the gRPC bridge that was accepted and has not finished.
InFlight(g) == grpcPc[g] \in {"start", "rpc"}

\* C20: the stop event is never set while an accepted event is still
\* being processed: shutdown stops the intake and waits for the handlers
\* in flight before it lets main return.
C20_StopWaitsForInFlight ==
  grpcShut = "stopped" => \A g \in GrpcTasks : ~InFlight(g)

\* ------------------------------------------------------------------ C21

\* C21: every round trip to the engine is bounded by a timeout: a task that
\* has sent its request and waits for the answer eventually finishes its
\* handler, whether or not the engine ever answers.
C21_RoundTripBounded ==
  \A g \in GrpcTasks : (grpcPc[g] = "rpc") ~> (grpcPc[g] = "done")

\* ------------------------------------------------------------------ C22

\* The tasks whose request is with the engine and not answered yet.
Outstanding == {g \in GrpcTasks : grpcPc[g] = "rpc"}

\* C22: the requests in flight at the same time never exceed a fixed cap: of
\* a burst of events, larger than the cap, not every request is in flight
\* at once.
C22_InFlightCapped == Cardinality(Outstanding) < Cardinality(GrpcTasks)

\* ------------------------------------------------------------------ C23

\* C23: for each event at most one request is built and it goes to the
\* engine at most once: whatever the outcome, a task never makes a second
\* call on the stub, and a task that has not run its handler has made none.
C23_SentAtMostOnce ==
  \A g \in GrpcTasks :
    /\ Len(stubCalls[g]) <= 1
    /\ grpcPc[g] \in {"idle", "start"} => stubCalls[g] = <<>>
    /\ \A i \in DOMAIN stubCalls[g] :
         stubCalls[g][i].op = "ProcessSignal" => stubCalls[g][i].request = RequestOf(g)

\* A handler finished after a transport failure, having sent its request once.
C23_Witness ==
  \E g \in GrpcTasks :
    /\ grpcPc[g] = "done"
    /\ grpcResponse[g] = GrpcNone
    /\ Len(stubCalls[g]) = 1
    /\ stubCalls[g][1].op = "ProcessSignal"

\* ------------------------------------------------------------------ C24

\* A failure happened while task t ran its handler: the payload could not be
\* read, the engine could not be reached or did not answer, or its answer
\* could not be decoded or used.
HandlerFailed(t) ==
  \/ payload[t].old = NoRecord
  \/ payload[t].kind = "new_signal" /\ (payload[t].id = None \/ payload[t].agent_id = None)
  \/ pc[t] \in {"handle", "done", "raised"} /\ response[t].kind \in {"none", "nondict"}

\* C24: no handler lets a failure escape: whatever the payload and whatever
\* fails, the task of a handler ends by returning, and the event loop is
\* free for the other tasks once it has.
C24_NoFailureEscapes ==
  \A t \in Tasks :
    /\ pc[t] # "raised"
    /\ pc[t] = "done" => running # t

\* Each handler has returned after a failure: handle_new_signal after an
\* answer it could not use, handle_signal_update after a payload it could
\* not read, handle_agent_change after a transport failure.
C24_Witness ==
  /\ \E t \in Tasks :
       pc[t] = "done" /\ payload[t].kind = "new_signal" /\ response[t].kind = "nondict"
  /\ \E t \in Tasks :
       pc[t] = "done" /\ payload[t].kind \in {"signal_update", "agent_change"} /\ HandlerFailed(t)

\* ------------------------------------------------------------------ C25

\* The round trip of task t ended in a rejection or a transport failure.
TcpRejectedOrFailed(t) ==
  /\ pc[t] = "done"
  /\ \/ response[t].kind = "none"
     \/ response[t].kind = "dict" /\ response[t].status # "success"

\* C25: a change notification of the agents table that ends in a rejection
\* or a transport failure is logged only: its task issues no write to the
\* database, and every write there is comes from the handler of a signals
\* INSERT and names that signal's own row.
C25_AgentFailureLoggedOnly ==
  \A t \in Tasks :
    /\ payload[t].kind = "agent_change" => dbCalls[t] = <<>>
    /\ \A i \in DOMAIN dbCalls[t] :
         payload[t].kind = "new_signal" /\ dbCalls[t][i].id = SignalId(t)

\* An agents notification was rejected, and another one met a transport
\* failure.
C25_Witness ==
  /\ \E t \in Tasks :
       /\ payload[t].kind = "agent_change"
       /\ pc[t] = "done"
       /\ response[t].kind = "dict" /\ response[t].status = "error"
  /\ \E t \in Tasks :
       payload[t].kind = "agent_change" /\ TcpRejectedOrFailed(t) /\ response[t].kind = "none"

\* ------------------------------------------------------------------ C26

\* The engine operation that matches the operation of a notification.
MatchingOperation == [INSERT |-> "CREATE", UPDATE |-> "UPDATE", DELETE |-> "DELETE"]

\* Task t has put its request on the wire and waits for the answer.
TcpRequestSent(t) == pc[t] = "recv"

\* C26: the request sent for a notification of the agents table is the
\* engine operation matching the notification's operation: a create for an
\* INSERT, an update for an UPDATE, a delete for a DELETE; so it is one of
\* the three.
C26_OperationMatches ==
  \A t \in Tasks :
    payload[t].kind = "agent_change" /\ TcpRequestSent(t)
      => \E o \in DOMAIN MatchingOperation : Request(t).signal_type = MatchingOperation[o]

\* ------------------------------------------------------------------ C27

\* The payload of task g is the server-init message.
ServerInitMessage(g) == EventOf(g) = PyDict("server-init" :> PyNone)

\* C27: BridgeClient dispatches each exchange to the one engine operation
\* that matches it.  A server-init message gives one InitServer call and no
\* ProcessSignal call; a payload a request was built from gives one
\* ProcessSignal call with that request and no InitServer call; and what
\* the caller gets back is what the operation returned: send_signal reports
\* success exactly when a response came and its success flag is set.
C27_DispatchMatches ==
  \A g \in GrpcTasks :
    (grpcPc[g] \in {"rpc", "done"} /\ HandlerOf(EventOf(g)) = "handle_signal_insert") =>
      /\ ServerInitMessage(g) =>
           stubCalls[g] = << [op |-> "InitServer", request |-> NoRequest] >>
      /\ (~ServerInitMessage(g) /\ RequestOf(g).t = "request") =>
           stubCalls[g] = << [op |-> "ProcessSignal", request |-> RequestOf(g)] >>
      /\ (grpcPc[g] = "done" /\ stubCalls[g] # <<>>) =>
           (sendResult[g] = "True" <=> (grpcResponse[g] \in GrpcReplies /\ grpcResponse[g].success))

\* A server-init message was answered with success, and a signal request
\* was answered with a rejection.
C27_Witness ==
  /\ \E g \in GrpcTasks :
       grpcPc[g] = "done" /\ ServerInitMessage(g) /\ sendResult[g] = "True"
  /\ \E g \in GrpcTasks :
       /\ grpcPc[g] = "done" /\ ~ServerInitMessage(g)
       /\ Len(stubCalls[g]) = 1 /\ stubCalls[g][1].op = "ProcessSignal"
       /\ grpcResponse[g] \in GrpcReplies /\ ~grpcResponse[g].success

\* ------------------------------------------------------------------ C28

\* main() has registered a subscription or sent a request to the engine.
StartedUp ==
  \/ grpcMain = "subscribed"
  \/ mainCalls # <<>>
  \/ \E g \in GrpcTasks : grpcPc[g] # "idle"

\* C28 as claimed: when the engine host and port or the Supabase credentials
\* are missing from the environment, main returns before it registers a
\* subscription and before it sends a request to the engine.
C28_FailsFastOnMissingConfig ==
  (config.read /\ (~config.credentials \/ ~config.coordinates)) => ~StartedUp

\* C28 amended: when a Supabase credential is missing, main returns before
\* it creates the gRPC channel, registers a subscription or sends a request
\* to the engine.  (A missing engine host or port is replaced by its
\* default and startup goes on.)
C28_FailsFastOnMissingCredentials ==
  (config.read /\ ~config.credentials) =>
    /\ grpcMain = "returned"
    /\ ~stub /\ channel = "none"
    /\ ~StartedUp

\* main has returned because a credential was missing.
C28_Witness == config.read /\ ~config.credentials /\ grpcMain = "returned"

\* ------------------------------------------------------------------ C29

\* EngineCommunicator.send_signal of task t has just returned: the handler
\* has the result and has not gone on yet.
SendSignalReturned(t) == pc[t] = "handle"

\* C29: when send_signal has returned, whatever its outcome, the
\* communicator holds no socket: the socket opened for the call is closed
\* and self.socket is None.
C29_NoSocketAfterSendSignal ==
  \A t \in Tasks :
    SendSignalReturned(t) => (socket = NoSocket /\ ~conns[t].open)

\* ------------------------------------------------------------------ C30

\* The engine is connected and initialised: connect() made the channel and
\* the stub, and main's one InitServer call was answered with success.
EngineReady ==
  /\ stub /\ channel # "none"
  /\ mainCalls = << [op |-> "InitServer", request |-> NoRequest] >>
  /\ initSuccess

C31_EventuallyStops == (tcpShut = "signalled") ~> (tcpShut = "stopped")

\* ------------------------------------------------------------------ C32

\* The signals row of task t has no id or no agent_id.
LacksIds(t) == payload[t].id = None \/ payload[t].agent_id = None

\* Task t has got as far as EngineCommunicator.send_signal.
ReachedSend(t) == pc[t] \in {"connect", "sendall", "recv", "finally", "handle"}

\* C32: handle_new_signal issues no write and sends nothing for a row
\* without id or agent_id; for every other row the PROCESSING write comes
\* first, before the request is sent, and when the handler has finished the
\* row has got a session write-back or a FAILED write-back.
C32_NeverLeftProcessing ==
  \A t \in Tasks :
    payload[t].kind = "new_signal" =>
      /\ LacksIds(t) => (dbCalls[t] = <<>> /\ ~ReachedSend(t))
      /\ (~LacksIds(t) /\ (ReachedSend(t) \/ pc[t] = "done")) =>
           (dbCalls[t] # <<>> /\ dbCalls[t][1] = [op |-> "status", id |-> SignalId(t), arg |-> "PROCESSING"])
      /\ (~LacksIds(t) /\ pc[t] = "done") =>
           \E i \in DOMAIN dbCalls[t] : dbCalls[t][i].op \in {"session", "error"}

\* ------------------------------------------------------------------ C33

\* The update of task t changes the status of the row from a value other
\* than CANCELLED to CANCELLED, and the new row has a session id.
Cancels(t) ==
  /\ payload[t].old \notin {NoRecord, "CANCELLED"}
  /\ payload[t].status = "CANCELLED"
  /\ payload[t].session_id # None

\* The step in which handle_signal_update of task t runs from its first
\* line to send_signal or to its end.
UpdateHandled(t) ==
  payload[t].kind = "signal_update" /\ pc[t] = "start" /\ pc'[t] # "start"

\* C33: handle_signal_update goes on to send a request, of type AGENT_STOP,
\* exactly when the update is a cancellation of a row with a session; for
\* every other update it ends without sending; and the task of an update
\* never writes to the database.
C33_StopExactlyOnCancellation ==
  /\ [][\A t \in Tasks : UpdateHandled(t) =>
          /\ pc'[t] = "connect" <=> Cancels(t)
          /\ pc'[t] # "connect" => pc'[t] = "done"]_vars
  /\ [](\A t \in Tasks : payload[t].kind = "signal_update" =>
          /\ dbCalls[t] = <<>>
          /\ ReachedSend(t) => (Cancels(t) /\ Request(t).signal_type = "AGENT_STOP"))

\* A cancellation was sent on and answered, and an update that is no
\* cancellation has ended.
C33_Witness ==
  /\ \E t \in Tasks :
       /\ payload[t].kind = "signal_update" /\ Cancels(t)
       /\ pc[t] = "done" /\ response[t].kind = "dict"
  /\ \E t \in Tasks :
       payload[t].kind = "signal_update" /\ ~Cancels(t) /\ pc[t] = "done"
====
